---- MODULE Spec2Model ----
(***************************************************************************)
(* The note store of smart-note-assistant (src/store/noteStore.ts) with    *)
(* its storage service (IndexedDB variant), the generation collaborator    *)
(* and the object-URL registry of the browser.                             *)
(*                                                                         *)
(* Every store action is one synchronous handler; a handler that awaits    *)
(* generateSmartNote is split at the await: one action up to the await and *)
(* one action per outcome of the awaited call.                             *)
(***************************************************************************)
EXTENDS Integers, Sequences, FiniteSets, TLC

VARIABLES
    notes,                \* NoteStore.notes: sequence of NoteSession records
    activeNoteId,         \* NoteStore.activeNoteId (NullId = null)
    deleteTargetId,       \* NoteStore.deleteTargetId (NullId = null)
    isStorageInitialized, \* NoteStore.isStorageInitialized
    saveStatus,           \* NoteStore.saveStatus
    db,                   \* the IndexedDB object store 'notes'
    calls,                \* generateSmartNote calls that have not answered yet
    ncalls,               \* number of generateSmartNote calls started
    nextId,               \* next value generateId returns
    nextUrl,              \* next object URL URL.createObjectURL returns
    revoked,              \* object URLs passed to URL.revokeObjectURL
    now,                  \* Date.now(), in ticks
    timer,                \* the auto-save timeout: ticks left, NoTimer when none is pending
    settled,              \* history: the answer, the delete or the save of the last operation
    searchQuery,          \* the keywords of the search box
    wall,                 \* the clock the scheduler reads, in slots of 10 seconds
    mountedAt,            \* the slot in which App mounted and called setInterval
    checkedAt,            \* the slot of the last run of checkTime (of the mount before the first)
    lastRunDate,          \* localStorage 'last_auto_weekly_summary_date': a day, NoDate when absent
    autoRuns,             \* history: the days on which checkTime called generateWeeklySummary
    isChatLoading         \* NoteStore.isChatLoading

\* The state of the weekly summary scheduler (src/unnamed/part_005, lines 44-62).
scheduler == <<wall, mountedAt, checkedAt, lastRunDate, autoRuns>>

vars == <<notes, activeNoteId, deleteTargetId, isStorageInitialized, saveStatus,
          db, calls, ncalls, nextId, nextUrl, revoked, now, timer, settled,
          searchQuery, wall, mountedAt, checkedAt, lastRunDate, autoRuns,
          isChatLoading>>

----------------------------------------------------------------------------
\* Bounds of the model.

MaxIds == 3            \* generateId returns ids below MaxIds
MaxCalls == 1          \* generateSmartNote is called at most MaxCalls times
MaxUrls == 3           \* URL.createObjectURL is called at most MaxUrls times
MaxRetries == 3        \* generateSmartNote calls of a user who retries
MaxSessions == 5       \* generateId returns ids below MaxSessions to a user who only creates and deletes
TicksPerDay == 2       \* granularity of the clock
DelayTicks == 2        \* granularity of the auto-save delay (2000 ms)
MaxElapsed == 1        \* Date.now() advances at most MaxElapsed times
MaxText == 2           \* letters of a stored content, and of a keyword
MaxKeywords == 2       \* keywords of a search

\* The scheduler's clock: a slot is 10 seconds; the hours before 17:00 and
\* after 17:01 are each shortened to one period of the check.
CheckSlots == 3        \* setInterval(checkTime, 30000)
MinuteSlots == 6       \* the minute 17:00
MinuteStart == 3       \* the first slot of 17:00:00 in a day
SlotsPerDay == 12      \* slots of a day: a multiple of the period, as 24 hours are

MaxNodes == 3          \* pieces of a content sent to the collaborator

----------------------------------------------------------------------------
\* Values.

NullId == 0
NoTimer == -1
NoDate == -1
NullError == "null"

IDLE == "IDLE"
PROCESSING == "PROCESSING"
SUCCESS == "SUCCESS"
ERROR == "ERROR"

DefaultErrorMessage == "An unexpected error occurred."

\* What the collaborator may answer: a markdown text, or an Error with a message
\* (the empty message stands for an error thrown without one).
Markdowns == {"# Summary"}
FailureMessages == {"quota", ""}

\* Files the user can attach: name extension and MIME type.
PdfFile == [ext |-> "pdf", mime |-> "application/pdf"]
PngFile == [ext |-> "png", mime |-> "image/png"]

\* Tokens of a session's content (inputText): the content is the concatenation
\* of its tokens.
TemplateHtml == "<p>date</p>"
TypedHtml == "typed"
PlaceholderHtml == "<p>Analyzing...</p>"
AggregationHtml == "<h1>Weekly Notes Aggregation</h1><p>Please summarize</p><hr/>"
EntryOpenHtml == "<h3>Date - Title</h3><div>"
EntryCloseHtml == "</div><hr/>"
SpaceHtml == " "
BreakHtml == "<br>"
ImageHtml == "<img src=\"data:image/png;base64,AAAA\">"
LinkHtml == "<a href=\"https://host\">link</a>"
SeparatorHtml == "<hr dashed/><h2>Smart Note Update</h2>"

\* The search box holds a sequence of keywords (its text split at white
\* space); empty when the box is empty or blank.
EmptyQuery == <<>>

\* Markup of the search highlight (src/components/InputSection.tsx, line 136):
\* the opening tag <span class="search-highlight ..."> and the closing tag.
HighlightOpen == "<span class=\"search-highlight bg-yellow-300 text-slate-900 rounded-sm\">"
HighlightClose == "</span>"

\* Characters of the text a user types and searches for.
Letters == {"a", "b"}

\* The tokens of the model that are one character long.
Characters == Letters \cup {"T", "t", "U", "u"}

\* Titles are sequences of words.
EmptyTitle == <<>>
TypedTitle == <<"U">>
WeeklyTitle == <<"Weekly Summary">>
SmartTitle == <<"Smart Note", "date">>

----------------------------------------------------------------------------
\* Sequence helpers (Array.prototype.map / filter / find / findIndex).

Ids(ns) == {ns[i].id : i \in 1..Len(ns)}

HasNote(ns, id) == \E i \in 1..Len(ns) : ns[i].id = id

\* findIndex, 1-based; 0 when there is none.
FindIndex(ns, id) ==
    IF HasNote(ns, id)
    THEN CHOOSE i \in 1..Len(ns) :
            ns[i].id = id /\ \A j \in 1..(i - 1) : ns[j].id # id
    ELSE 0

Find(ns, id) == ns[FindIndex(ns, id)]

FilterOut(ns, id) == SelectSeq(ns, LAMBDA n : n.id # id)

\* { ...note, ...updates }
Merge(note, updates) ==
    [f \in DOMAIN note |-> IF f \in DOMAIN updates THEN updates[f] ELSE note[f]]

\* notes.map(n => n.id === id ? replacement : n)
ReplaceById(ns, id, replacement) ==
    [i \in 1..Len(ns) |-> IF ns[i].id = id THEN replacement ELSE ns[i]]

\* notes.map(n => n.id === id ? { ...n, ...updates } : n)
MergeById(ns, id, updates) ==
    [i \in 1..Len(ns) |-> IF ns[i].id = id THEN Merge(ns[i], updates) ELSE ns[i]]

----------------------------------------------------------------------------
\* String.prototype.toLowerCase and String.prototype.includes, on texts given
\* as sequences of tokens.

toLowerCase(token) ==
    CASE token = "T" -> "t"
      [] token = "U" -> "u"
      [] token = "# Summary" -> "# summary"
      [] token = "Smart Note" -> "smart note"
      [] token = "Weekly Summary" -> "weekly summary"
      [] token = "(Copy)" -> "(copy)"
      [] token = "Untitled Copy" -> "untitled copy"
      [] OTHER -> token

LowerCased(text) == [i \in 1..Len(text) |-> toLowerCase(text[i])]

includes(text, keyword) ==
    \E i \in 1..(Len(text) - Len(keyword) + 1) :
       SubSeq(text, i, i + Len(keyword) - 1) = keyword

----------------------------------------------------------------------------
\* src/components/InputSection.tsx: removeHighlights and applyHighlights, on
\* markup given as the sequence of its tags and characters.

\* The first closing tag after position i, 0 when there is none.
FirstClose(html, i) ==
    IF \E j \in (i + 1)..Len(html) : html[j] = HighlightClose
    THEN CHOOSE j \in (i + 1)..Len(html) :
            /\ html[j] = HighlightClose
            /\ \A k \in (i + 1)..(j - 1) : html[k] # HighlightClose
    ELSE 0

\* html.replace(/<span class="search-highlight [^"]*">(.*?)<\/span>/g, '$1'),
\* from position i on: an opening tag matches with the shortest text up to a
\* closing tag, and the search goes on after that closing tag.
RECURSIVE removeHighlightsFrom(_, _)
removeHighlightsFrom(html, i) ==
    IF i > Len(html) THEN <<>>
    ELSE IF html[i] = HighlightOpen /\ FirstClose(html, i) # 0
         THEN SubSeq(html, i + 1, FirstClose(html, i) - 1)
                 \o removeHighlightsFrom(html, FirstClose(html, i) + 1)
         ELSE <<html[i]>> \o removeHighlightsFrom(html, i + 1)

\* removeHighlights (lines 119-121).
removeHighlights(html) == removeHighlightsFrom(html, 1)

\* html.replace(new RegExp(`(?![^<]*>)(${safeKeyword})`, 'gi'), '<span ...>$1</span>'),
\* from position i on: the keyword matches text whatever its case, never the
\* inside of a tag, and the search goes on after the match.
RECURSIVE highlightKeywordFrom(_, _, _)
highlightKeywordFrom(html, keyword, i) ==
    IF i > Len(html) THEN <<>>
    ELSE IF i + Len(keyword) - 1 <= Len(html)
            /\ LowerCased(SubSeq(html, i, i + Len(keyword) - 1)) = LowerCased(keyword)
         THEN <<HighlightOpen>> \o SubSeq(html, i, i + Len(keyword) - 1) \o <<HighlightClose>>
                 \o highlightKeywordFrom(html, keyword, i + Len(keyword))
         ELSE <<html[i]>> \o highlightKeywordFrom(html, keyword, i + 1)

\* keywords.forEach, from keyword k on.
RECURSIVE highlightKeywords(_, _, _)
highlightKeywords(html, keywords, k) ==
    IF k > Len(keywords) THEN html
    ELSE highlightKeywords(highlightKeywordFrom(html, keywords[k], 1), keywords, k + 1)

\* !query || query.trim().length < 2 (line 125): no keyword, or one keyword
\* of one character.
TooShort(query) ==
    \/ Len(query) = 0
    \/ Len(query) = 1 /\ Len(query[1]) = 1 /\ query[1][1] \in Characters

\* applyHighlights (lines 124-140).
applyHighlights(html, query) ==
    IF TooShort(query) THEN html
    ELSE highlightKeywords(removeHighlights(html), query, 1)

\* What the editor shows for the content text (lines 226-247): the content
\* without highlight spans, highlighted when the search box is not empty.
Rendered(text, query) ==
    IF query # EmptyQuery
    THEN applyHighlights(removeHighlights(text), query)
    ELSE removeHighlights(text)

----------------------------------------------------------------------------
\* src/services/geminiService.ts: the request generateSmartNote builds.

\* A node of the parsed document: its tag ("#text" for a text node) and its
\* text, src or href.
Node(tag, value) == [tag |-> tag, value |-> value]

\* DOMParser.parseFromString and the TreeWalker (lines 277-286): the nodes of
\* a piece of content, in document order.
Walk(token) ==
    CASE token = TemplateHtml -> <<Node("P", ""), Node("#text", "date")>>
      [] token = PlaceholderHtml -> <<Node("P", ""), Node("#text", "Analyzing...")>>
      [] token = SeparatorHtml ->
            <<Node("BR", ""), Node("BR", ""), Node("HR", ""), Node("H2", ""),
              Node("#text", "Smart Note Update"), Node("BR", "")>>
      [] token = "<div><h1>Summary</h1></div>" ->
            <<Node("DIV", ""), Node("H1", ""), Node("#text", "Summary")>>
      [] token = "<div>text</div>" -> <<Node("DIV", ""), Node("#text", "text")>>
      [] token = AggregationHtml ->
            <<Node("H1", ""), Node("#text", "Weekly Notes Aggregation"),
              Node("P", ""), Node("#text", "Please summarize"), Node("HR", "")>>
      [] token = EntryOpenHtml ->
            <<Node("H3", ""), Node("#text", "Date - Title"), Node("DIV", "")>>
      [] token = EntryCloseHtml -> <<Node("HR", "")>>
      [] token = HighlightOpen -> <<Node("SPAN", "")>>
      [] token = HighlightClose -> <<>>
      [] token = BreakHtml -> <<Node("BR", "")>>
      [] token = ImageHtml -> <<Node("IMG", "data:image/png;base64,AAAA")>>
      [] token = LinkHtml -> <<Node("A", "https://host"), Node("#text", "link")>>
      [] OTHER -> <<Node("#text", token)>>

RECURSIVE WalkFrom(_, _)
WalkFrom(html, i) ==
    IF i > Len(html) THEN <<>> ELSE Walk(html[i]) \o WalkFrom(html, i + 1)

\* String.prototype.trim of a text given as its pieces: empty when every
\* piece is white space.
IsWhiteSpace(piece) == piece \in {" ", "\n"}
TrimsToEmpty(text) == \A i \in 1..Len(text) : IsWhiteSpace(text[i])

BlockTags == {"DIV", "P", "BR", "LI", "H1", "H2", "H3", "UL", "OL", "BLOCKQUOTE"}

TextPart(text) == [text |-> text, mimeType |-> "", data |-> ""]
InlineData(mimeType, data) == [text |-> <<>>, mimeType |-> mimeType, data |-> data]

\* Lines 290-330: the loop over the nodes from node i on.
RECURSIVE parseFrom(_, _, _, _)
parseFrom(nodes, i, parts, currentText) ==
    IF i > Len(nodes)
    THEN IF ~TrimsToEmpty(currentText) THEN Append(parts, TextPart(currentText)) ELSE parts
    ELSE LET node == nodes[i]
         IN CASE node.tag = "#text" ->
                    parseFrom(nodes, i + 1, parts,
                              IF node.value # "" THEN Append(currentText, node.value)
                              ELSE currentText)
              [] node.tag = "IMG" ->
                    IF node.value = "data:image/png;base64,AAAA"
                    THEN parseFrom(nodes, i + 1,
                                   Append(IF ~TrimsToEmpty(currentText)
                                          THEN Append(parts, TextPart(currentText))
                                          ELSE parts,
                                          InlineData("image/png", "AAAA")),
                                   IF ~TrimsToEmpty(currentText) THEN <<>> ELSE currentText)
                    ELSE parseFrom(nodes, i + 1, parts, currentText)
              [] node.tag = "A" ->
                    parseFrom(nodes, i + 1, parts,
                              IF node.value = "https://host"
                              THEN Append(currentText, " (Link URL: https://host) ")
                              ELSE currentText)
              [] node.tag \in BlockTags ->
                    parseFrom(nodes, i + 1, parts, Append(currentText, "\n"))
              [] OTHER -> parseFrom(nodes, i + 1, parts, currentText)

\* Lines 275-338.
parseHtmlToContentParts(html) == parseFrom(WalkFrom(html, 1), 1, <<>>, <<>>)

\* Lines 170-180: one part per file; the data is the file read as base64.
attachmentParts(files) ==
    [i \in 1..Len(files) |-> InlineData(files[i].mime, files[i].ext)]

FallbackPart == TextPart(<<"Please analyze the provided context.">>)

\* A request without the fallback.
finalPartsAsParsed(html, files) ==
    parseHtmlToContentParts(html) \o attachmentParts(files)

\* Lines 167-190.
finalParts(html, files) ==
    IF parseHtmlToContentParts(html) \o attachmentParts(files) = <<>>
    THEN <<FallbackPart>>
    ELSE parseHtmlToContentParts(html) \o attachmentParts(files)

----------------------------------------------------------------------------
\* src/components/Sidebar.tsx: filteredNotes (lines 24-38).

\* (note.result?.markdown || '').toLowerCase()
generated(note) ==
    IF note.result = <<>> THEN <<>> ELSE <<toLowerCase(note.result[1].markdown)>>

\* A filter that shows a session when one keyword is found.
filteredNotesSome(ns, query) ==
    SelectSeq(ns, LAMBDA note :
        \/ query = EmptyQuery
        \/ \E k \in 1..Len(query) :
              \/ includes(LowerCased(note.title), LowerCased(query[k]))
              \/ includes(LowerCased(note.inputText), LowerCased(query[k]))
              \/ includes(generated(note), LowerCased(query[k])))

filteredNotes(ns, query) ==
    SelectSeq(ns, LAMBDA note :
        \/ query = EmptyQuery
        \/ \A k \in 1..Len(query) :
              \/ includes(LowerCased(note.title), LowerCased(query[k]))
              \/ includes(LowerCased(note.inputText), LowerCased(query[k]))
              \/ includes(generated(note), LowerCased(query[k])))

----------------------------------------------------------------------------
\* src/unnamed/part_007 (utils/constants): createNewNote.

\* A note that starts as PROCESSING.
createNewNoteBusy(id, title, t) ==
    [id |-> id,
     title |-> title,
     inputText |-> <<TemplateHtml>>,
     attachments |-> <<>>,
     result |-> <<>>,
     status |-> PROCESSING,
     error |-> NullError,
     createdAt |-> t,
     role |-> "autosar",
     chatHistory |-> <<>>]

createNewNote(id, title, t) ==
    [id |-> id,
     title |-> title,
     inputText |-> <<TemplateHtml>>,
     attachments |-> <<>>,
     result |-> <<>>,
     status |-> IDLE,
     error |-> NullError,
     createdAt |-> t,
     role |-> "autosar",
     chatHistory |-> <<>>]

----------------------------------------------------------------------------
\* src/services/geminiService.ts: markdownToHtml, on the texts of Markdowns.

markdownToHtml(md) ==
    CASE md = "# Summary" -> "<h1>Summary</h1>"
      [] OTHER -> md

\* `<div style="${RESET_AI_STYLE}">${aiHtml}</div>`
StyledAiHtml(aiHtml) ==
    CASE aiHtml = "<h1>Summary</h1>" -> "<div><h1>Summary</h1></div>"
      [] OTHER -> "<div>text</div>"

----------------------------------------------------------------------------
\* src/unnamed/part_000 (services/storageService, IndexedDB variant).

\* A put of the session with the status it has in memory.
NoteToSaveAsIs(note) ==
    Merge(note,
          [attachments |-> [i \in 1..Len(note.attachments) |->
                               [file |-> note.attachments[i].file,
                                type |-> note.attachments[i].type]]])

\* The record store.put writes for a session.
NoteToSave(note) ==
    Merge(note,
          [status |-> IF note.status = PROCESSING THEN IDLE ELSE note.status,
           attachments |-> [i \in 1..Len(note.attachments) |->
                               [file |-> note.attachments[i].file,
                                type |-> note.attachments[i].type]]])

\* A save that puts the records without clearing the object store first.
saveNotesToStoragePutOnly(store, ns, ok) ==
    IF ok
    THEN [opened |-> TRUE,
          flaky |-> store.flaky,
          records |-> [id \in DOMAIN store.records \cup Ids(ns) |->
                          IF id \in Ids(ns) THEN NoteToSave(Find(ns, id))
                          ELSE store.records[id]]]
    ELSE store

\* The object store after saveNotesToStorage(ns): clear, then one put per note
\* (a put replaces the record with the same key); a failed transaction changes
\* nothing.
saveNotesToStorage(store, ns, ok) ==
    IF ok
    THEN [opened |-> TRUE,
          flaky |-> store.flaky,
          records |-> [id \in Ids(ns) |->
                          NoteToSave(ns[CHOOSE i \in 1..Len(ns) :
                              ns[i].id = id /\ \A j \in (i + 1)..Len(ns) : ns[j].id # id])]]
    ELSE store

\* What a transaction can answer: it completes, or (on a storage layer that
\* rejects writes: quota, a blocked database) it reports an error.
SaveOutcomes(store) == IF store.flaky THEN BOOLEAN ELSE {TRUE}

\* The orders in which loadNotesFromStorage can return the records: getAll
\* answers in key order (the keys are the random ids), and the stable sort by
\* createdAt, newest first, keeps that order among equal timestamps.
LoadOrders(store) ==
    LET keys == DOMAIN store.records
        n == Cardinality(keys)
    IN {o \in [1..n -> keys] :
          /\ \A i, j \in 1..n : i # j => o[i] # o[j]
          /\ \A i \in 1..(n - 1) :
                store.records[o[i]].createdAt >= store.records[o[i + 1]].createdAt}

\* Number of attachments of the first k records of an order.
RECURSIVE AttachmentsBefore(_, _, _)
AttachmentsBefore(store, o, k) ==
    IF k = 0 THEN 0
    ELSE AttachmentsBefore(store, o, k - 1) + Len(store.records[o[k]].attachments)

\* A hydration that keeps the status and the error of the record.
HydrateAsIs(rec, u) ==
    Merge(rec,
          [attachments |-> [i \in 1..Len(rec.attachments) |->
                               [file |-> rec.attachments[i].file,
                                url |-> u + i,
                                type |-> rec.attachments[i].type]]])

\* The hydrated session of a record, its attachments given the object URLs
\* u + 1, u + 2, ...
Hydrate(rec, u) ==
    Merge(rec,
          [attachments |-> [i \in 1..Len(rec.attachments) |->
                               [file |-> rec.attachments[i].file,
                                url |-> u + i,
                                type |-> rec.attachments[i].type]],
           status |-> IF rec.status = PROCESSING THEN IDLE ELSE rec.status,
           error |-> NullError])

\* loadNotesFromStorage for one order o; <<>> stands for null.
loadNotesFromStorage(store, o, u) ==
    [i \in 1..Len(o) |-> Hydrate(store.records[o[i]], u + AttachmentsBefore(store, o, i - 1))]

TotalAttachments(store, o) == AttachmentsBefore(store, o, Len(o))

----------------------------------------------------------------------------
\* The clock and the Monday-to-Friday window of generateWeeklySummary
\* (src/store/noteStore.ts, lines 269-285). Day 0 is a Sunday.

DayOf(t) == t \div TicksPerDay
getDay(t) == DayOf(t) % 7

\* A window whose Monday is the day after a Sunday.
MondayAfterSunday(t) == (DayOf(t) - getDay(t) + 1) * TicksPerDay

\* monday.setDate(now.getDate() - day + (day === 0 ? -6 : 1)); setHours(0,0,0,0)
Monday(t) == (DayOf(t) - getDay(t) + (IF getDay(t) = 0 THEN -6 ELSE 1)) * TicksPerDay
\* friday.setDate(monday.getDate() + 4); setHours(23,59,59,999)
Friday(t) == Monday(t) + 5 * TicksPerDay - 1

weeklyNotes(ns, t) ==
    SelectSeq(ns, LAMBDA n : /\ n.createdAt >= Monday(t)
                             /\ n.createdAt <= Friday(t)
                             /\ n.title # WeeklyTitle)

----------------------------------------------------------------------------
\* The states the application starts in: an empty store (lines 49-59 of
\* src/store/noteStore.ts) over a database that was never opened, or over the
\* records an earlier run left.

Saturday == 13 * TicksPerDay

\* A session of this week, with a PDF attached.
StoredNewer ==
    [id |-> 1, title |-> <<"T">>, inputText |-> <<TemplateHtml>>,
     attachments |-> <<[file |-> PdfFile, type |-> "pdf"]>>,
     result |-> <<>>, status |-> IDLE, error |-> NullError,
     createdAt |-> 9 * TicksPerDay, role |-> "autosar", chatHistory |-> <<>>]

\* A session of last week, whose last generation failed.
StoredOlder ==
    [id |-> 2, title |-> EmptyTitle, inputText |-> <<TemplateHtml>>,
     attachments |-> <<>>,
     result |-> <<>>, status |-> ERROR, error |-> "quota",
     createdAt |-> 5 * TicksPerDay, role |-> "general", chatHistory |-> <<>>]

NeverOpened == [opened |-> FALSE, flaky |-> FALSE, records |-> <<>>]
EarlierRun == [opened |-> TRUE, flaky |-> FALSE, records |-> <<StoredNewer>>]
LongerRun == [opened |-> TRUE, flaky |-> FALSE, records |-> <<StoredNewer, StoredOlder>>]
\* The records any version of the application can have left: every status
\* (a version that wrote the status as it was leaves PROCESSING), an error or
\* none, up to two attachments, timestamps that differ or not.
StoredRecords(id, times) ==
    {[id |-> id, title |-> EmptyTitle, inputText |-> <<TemplateHtml>>,
      attachments |-> files,
      result |-> <<>>, status |-> status, error |-> error,
      createdAt |-> t, role |-> "autosar", chatHistory |-> <<>>] :
        files \in {<<>>, <<[file |-> PdfFile, type |-> "pdf"]>>,
                   <<[file |-> PdfFile, type |-> "pdf"], [file |-> PngFile, type |-> "image"]>>},
        status \in {IDLE, PROCESSING, SUCCESS, ERROR},
        error \in {NullError, "quota"},
        t \in times}

AnyRun ==
    {[opened |-> TRUE, flaky |-> FALSE, records |-> <<r1>>] :
        r1 \in StoredRecords(1, {9 * TicksPerDay})}
    \cup
    {[opened |-> TRUE, flaky |-> FALSE, records |-> <<r1, r2>>] :
        r1 \in StoredRecords(1, {9 * TicksPerDay}),
        r2 \in StoredRecords(2, {5 * TicksPerDay, 9 * TicksPerDay})}

\* The records of a user who typed one or two letters into one session.
TypedRecords ==
    {[id |-> 1, title |-> EmptyTitle, inputText |-> text,
      attachments |-> <<>>,
      result |-> <<>>, status |-> IDLE, error |-> NullError,
      createdAt |-> 9 * TicksPerDay, role |-> "autosar", chatHistory |-> <<>>] :
        text \in UNION {[1..n -> Letters] : n \in 1..MaxText}}

TypedRun == {[opened |-> TRUE, flaky |-> FALSE, records |-> <<r>>] : r \in TypedRecords}

\* An object store whose transactions may fail (quota, abort).
FailingRun == [opened |-> TRUE, flaky |-> TRUE, records |-> <<StoredNewer>>]

\* The history variable when the last step was neither an answer nor a delete.
NoCall == [kind |-> "none", id |-> NullId, active |-> NullId, outcome |-> "none",
           present |-> FALSE, index |-> 0, count |-> 0]

\* The history variable after a step about the session id: the active id, the
\* position of the session and the number of sessions before the step.
About(kind, id, outcome) ==
    settled' = [kind |-> kind, id |-> id, active |-> activeNoteId,
                outcome |-> outcome, present |-> HasNote(notes, id),
                index |-> FindIndex(notes, id), count |-> Len(notes)]

\* The history variable after call c answered.
Answered(c, outcome) == About(c.kind, c.activeNoteId, outcome)

\* An effect that leaves a pending timeout running.
RestartedUnlessPending ==
    timer' = IF timer # NoTimer THEN timer
             ELSE IF isStorageInitialized' /\ Len(notes') > 0 THEN DelayTicks ELSE NoTimer

\* The auto-save effect (src/unnamed/part_005, lines 34-42) after a set of
\* notes or isStorageInitialized: the cleanup clears the pending timeout, and
\* a new one is set unless the guard of line 35 returns.
Restarted ==
    timer' = IF isStorageInitialized' /\ Len(notes') > 0 THEN DelayTicks ELSE NoTimer

\* The scheduler of an application that mounts in one of the slots, over a
\* marker an earlier run left or none.
InitScheduler(slots, dates) ==
    /\ wall \in slots
    /\ mountedAt = wall
    /\ checkedAt = wall
    /\ lastRunDate \in dates
    /\ autoRuns = <<>>

InitStore(stores, times) ==
    /\ notes = <<>>
    /\ activeNoteId = NullId
    /\ deleteTargetId = NullId
    /\ isStorageInitialized = FALSE
    /\ saveStatus = "saved"
    /\ db \in stores
    /\ calls = {}
    /\ ncalls = 0
    /\ nextId = Cardinality(DOMAIN db.records) + 1
    /\ nextUrl = 0
    /\ revoked = {}
    /\ now \in times
    /\ timer = NoTimer
    /\ settled = NoCall
    /\ searchQuery = EmptyQuery
    /\ isChatLoading = FALSE

InitAt(stores, times) == InitStore(stores, times) /\ InitScheduler({0}, {NoDate})

InitOver(stores) == InitAt(stores, {Saturday})

Init == InitOver({NeverOpened, EarlierRun})

----------------------------------------------------------------------------
\* src/store/noteStore.ts: the actions of the store.

\* init (lines 63-80): the load, the set and, on a first run, the save.
init ==
    /\ ~isStorageInitialized
    /\ \E loaded \in BOOLEAN, ok \in SaveOutcomes(db), o \in LoadOrders(db) :
          LET savedNotes == IF loaded /\ db.opened
                            THEN loadNotesFromStorage(db, o, nextUrl)
                            ELSE <<>>
          IN IF Len(savedNotes) > 0
             THEN /\ notes' = savedNotes
                  /\ activeNoteId' = savedNotes[1].id
                  /\ nextUrl' = nextUrl + TotalAttachments(db, o)
                  /\ UNCHANGED <<db, nextId>>
             ELSE LET newNote == createNewNote(nextId, EmptyTitle, now)
                  IN /\ notes' = <<newNote>>
                     /\ activeNoteId' = newNote.id
                     /\ nextId' = nextId + 1
                     /\ db' = saveNotesToStorage(db, <<newNote>>, ok)
                     /\ UNCHANGED nextUrl
    /\ isStorageInitialized' = TRUE
    /\ UNCHANGED <<deleteTargetId, saveStatus, calls, ncalls, revoked, now>>
    /\ settled' = NoCall
    /\ UNCHANGED searchQuery
    /\ UNCHANGED scheduler
    /\ UNCHANGED isChatLoading
    /\ Restarted

\* setActiveNoteId (line 82), called by the sidebar with the id of a listed
\* session (src/components/Sidebar.tsx, line 41).
setActiveNoteId(id) ==
    /\ isStorageInitialized
    /\ id # activeNoteId
    /\ activeNoteId' = id
    /\ UNCHANGED <<notes, deleteTargetId, isStorageInitialized, saveStatus,
                   db, calls, ncalls, nextId, nextUrl, revoked, now>>
    /\ settled' = NoCall
    /\ UNCHANGED searchQuery
    /\ UNCHANGED scheduler
    /\ UNCHANGED isChatLoading
    /\ UNCHANGED timer

\* setSearchQuery (line 83), called by the search box with its text
\* (src/components/Sidebar.tsx).
setSearchQuery(query) ==
    /\ isStorageInitialized
    /\ query # searchQuery
    /\ searchQuery' = query
    /\ UNCHANGED scheduler
    /\ UNCHANGED isChatLoading
    /\ UNCHANGED <<notes, activeNoteId, deleteTargetId, isStorageInitialized, saveStatus,
                   db, calls, ncalls, nextId, nextUrl, revoked, now, timer>>
    /\ settled' = NoCall

\* setDeleteTargetId (line 88): the delete button of a listed session
\* (Sidebar.tsx, line 175) or Cancel in the modal (SettingsModal.tsx, line 88).
setDeleteTargetId(id) ==
    /\ isStorageInitialized
    /\ id # deleteTargetId
    /\ deleteTargetId' = id
    /\ UNCHANGED <<notes, activeNoteId, isStorageInitialized, saveStatus,
                   db, calls, ncalls, nextId, nextUrl, revoked, now>>
    /\ settled' = NoCall
    /\ UNCHANGED searchQuery
    /\ UNCHANGED scheduler
    /\ UNCHANGED isChatLoading
    /\ UNCHANGED timer

\* A saveNotes that sets the status without writing.
saveNotesOfStatus(ns, ok) ==
    /\ db' = db
    /\ saveStatus' = IF ok THEN "saved" ELSE "error"

\* saveNotes (lines 161-166): the write of the collection ns and the status set
\* from its answer. Nothing of the store reads saveStatus, so the 'saving' set
\* before the await is folded into the step.
saveNotesOf(ns, ok) ==
    /\ db' = saveNotesToStorage(db, ns, ok)
    /\ saveStatus' = IF ok THEN "saved" ELSE "error"

\* A saveNotes that can be called while the loading screen is shown.
saveNotesWhileLoading ==
    /\ \E ok \in SaveOutcomes(db) : saveNotesOf(notes, ok)
    /\ UNCHANGED <<notes, activeNoteId, deleteTargetId, isStorageInitialized,
                   calls, ncalls, nextId, nextUrl, revoked, now>>
    /\ About("save", NullId, "none")
    /\ UNCHANGED searchQuery
    /\ UNCHANGED scheduler
    /\ UNCHANGED isChatLoading
    /\ UNCHANGED timer

\* saveNotes, called by the save buttons (src/unnamed/part_005, lines 123, 149),
\* which the loading screen (lines 68-77) does not show.
saveNotes ==
    /\ isStorageInitialized
    /\ \E ok \in SaveOutcomes(db) : saveNotesOf(notes, ok)
    /\ UNCHANGED <<notes, activeNoteId, deleteTargetId, isStorageInitialized,
                   calls, ncalls, nextId, nextUrl, revoked, now>>
    /\ About("save", NullId, "none")
    /\ UNCHANGED searchQuery
    /\ UNCHANGED scheduler
    /\ UNCHANGED isChatLoading
    /\ UNCHANGED timer

\* The timeout of the auto-save effect fires (part_005, lines 37-39).
autoSave ==
    /\ isStorageInitialized
    /\ timer = 0
    /\ \E ok \in SaveOutcomes(db) : saveNotesOf(notes, ok)
    /\ timer' = NoTimer
    /\ UNCHANGED <<notes, activeNoteId, deleteTargetId, isStorageInitialized,
                   calls, ncalls, nextId, nextUrl, revoked, now>>
    /\ settled' = NoCall
    /\ UNCHANGED searchQuery
    /\ UNCHANGED scheduler
    /\ UNCHANGED isChatLoading

\* A tick of the delay passes while the timeout is pending; no operation.
Tick ==
    /\ timer > 0
    /\ timer' = timer - 1
    /\ UNCHANGED <<notes, activeNoteId, deleteTargetId, isStorageInitialized, saveStatus,
                   db, calls, ncalls, nextId, nextUrl, revoked, now, settled, searchQuery, scheduler, isChatLoading>>

\* addNote (lines 90-103).
addNote ==
    /\ isStorageInitialized
    /\ LET newNote == createNewNote(nextId, EmptyTitle, now)
           updatedNotes == <<newNote>> \o notes
       IN /\ notes' = updatedNotes
          /\ activeNoteId' = newNote.id
          /\ \E ok \in SaveOutcomes(db) : saveNotesOf(updatedNotes, ok)
    /\ nextId' = nextId + 1
    /\ UNCHANGED <<deleteTargetId, isStorageInitialized, calls, ncalls, nextUrl, revoked, now>>
    /\ settled' = NoCall
    /\ searchQuery' = EmptyQuery
    /\ UNCHANGED scheduler
    /\ UNCHANGED isChatLoading
    /\ Restarted

\* updateActiveNote (lines 105-114): the collection after the call.
updateActiveNote(ns, active, updates) ==
    IF active = NullId THEN ns ELSE MergeById(ns, active, updates)

ActiveNote == Find(notes, activeNoteId)

\* What the editor can hold after the user edited the content: a paragraph
\* typed at the end, or the last paragraph erased.
Edited(content) ==
    IF content # <<>> /\ content[Len(content)] = TypedHtml
    THEN SubSeq(content, 1, Len(content) - 1)
    ELSE Append(content, TypedHtml)

\* onChangeText (src/unnamed/part_005, line 144), with the editor's content.
\* The editor reports its content from handleInput, also after the await of
\* handleImageUpload and handlePaste (src/components/InputSection.tsx, lines
\* 408-430), so whatever the status of the session is by then. handleInput
\* (lines 319-327) removes the highlights from what the editor shows.
onChangeText ==
    /\ isStorageInitialized
    /\ HasNote(notes, activeNoteId)
    /\ notes' = updateActiveNote(notes, activeNoteId,
                    [inputText |-> removeHighlights(
                                      Edited(Rendered(ActiveNote.inputText, searchQuery)))])
    /\ UNCHANGED <<activeNoteId, deleteTargetId, isStorageInitialized, saveStatus,
                   db, calls, ncalls, nextId, nextUrl, revoked, now>>
    /\ settled' = NoCall
    /\ UNCHANGED searchQuery
    /\ UNCHANGED scheduler
    /\ UNCHANGED isChatLoading
    /\ Restarted

\* onChangeTitle (src/unnamed/part_005, line 143): the title input, which is
\* disabled while the session shown is PROCESSING (InputSection.tsx, line 504).
\* The user types a title or erases it.
onChangeTitle ==
    /\ isStorageInitialized
    /\ HasNote(notes, activeNoteId)
    /\ ActiveNote.status # PROCESSING
    /\ notes' = updateActiveNote(notes, activeNoteId,
                    [title |-> IF ActiveNote.title = TypedTitle THEN EmptyTitle ELSE TypedTitle])
    /\ UNCHANGED <<activeNoteId, deleteTargetId, isStorageInitialized, saveStatus,
                   db, calls, ncalls, nextId, nextUrl, revoked, now>>
    /\ settled' = NoCall
    /\ UNCHANGED searchQuery
    /\ UNCHANGED scheduler
    /\ UNCHANGED isChatLoading
    /\ Restarted

\* The dismiss button of the error banner (part_005, lines 153-158).
dismissError ==
    /\ isStorageInitialized
    /\ HasNote(notes, activeNoteId)
    /\ ActiveNote.error # NullError
    /\ notes' = updateActiveNote(notes, activeNoteId, [error |-> NullError])
    /\ UNCHANGED <<activeNoteId, deleteTargetId, isStorageInitialized, saveStatus,
                   db, calls, ncalls, nextId, nextUrl, revoked, now>>
    /\ settled' = NoCall
    /\ UNCHANGED searchQuery
    /\ UNCHANGED scheduler
    /\ UNCHANGED isChatLoading
    /\ Restarted

\* A deleteNote that selects the first remaining session.
nextActiveIdFirst(ns, newNotes, active, target) ==
    IF active = target THEN newNotes[1].id ELSE active

\* A deleteNote that leaves the active id alone.
nextActiveIdKept(ns, newNotes, active, target) == active

\* deleteNote, lines 185-190: the active id after the session deleteTargetId
\* has been filtered out of ns, leaving the non-empty newNotes.
nextActiveId(ns, newNotes, active, target) ==
    IF active = target
    THEN LET deletedIndex == FindIndex(ns, target)
             newActiveIndex == IF deletedIndex > 1 THEN deletedIndex - 1 ELSE 1
         IN newNotes[IF newActiveIndex < Len(newNotes)
                     THEN newActiveIndex ELSE Len(newNotes)].id
    ELSE active

\* deleteNote (lines 168-199).
deleteNote ==
    /\ deleteTargetId # NullId
    /\ LET newNotes == FilterOut(notes, deleteTargetId)
       IN IF Len(newNotes) = 0
          THEN /\ LET freshNote == createNewNote(nextId, EmptyTitle, now)
                  IN /\ notes' = <<freshNote>>
                     /\ activeNoteId' = freshNote.id
                     /\ \E ok \in SaveOutcomes(db) : db' = saveNotesToStorage(db, <<freshNote>>, ok)
               /\ nextId' = nextId + 1
          ELSE /\ activeNoteId' = nextActiveId(notes, newNotes, activeNoteId, deleteTargetId)
               /\ notes' = newNotes
               /\ \E ok \in SaveOutcomes(db) : db' = saveNotesToStorage(db, newNotes, ok)
               /\ UNCHANGED nextId
    /\ deleteTargetId' = NullId
    /\ UNCHANGED <<isStorageInitialized, saveStatus, calls, ncalls,
                   nextUrl, revoked, now>>
    /\ About("delete", deleteTargetId, "none")
    /\ UNCHANGED searchQuery
    /\ UNCHANGED scheduler
    /\ UNCHANGED isChatLoading
    /\ Restarted

\* The session duplicateNote builds from noteToCopy (lines 206-218).
duplicateOf(noteToCopy, id, u, t) ==
    Merge(noteToCopy,
          [id |-> id,
           title |-> IF noteToCopy.title # EmptyTitle
                     THEN Append(noteToCopy.title, "(Copy)")
                     ELSE <<"Untitled Copy">>,
           createdAt |-> t,
           status |-> IDLE,
           error |-> NullError,
           attachments |-> [i \in 1..Len(noteToCopy.attachments) |->
                               Merge(noteToCopy.attachments[i], [url |-> u + i])],
           chatHistory |-> <<>>])

\* A duplicateNote that makes the copy the active session, as addNote does.
duplicateNoteSelected(id) ==
    /\ isStorageInitialized
    /\ IF ~HasNote(notes, id)
       THEN UNCHANGED vars
       ELSE /\ LET noteToCopy == Find(notes, id)
                   newNote == duplicateOf(noteToCopy, nextId, nextUrl, now)
                   updatedNotes == <<newNote>> \o notes
               IN /\ notes' = updatedNotes
                  /\ activeNoteId' = newNote.id
                  /\ nextUrl' = nextUrl + Len(noteToCopy.attachments)
                  /\ \E ok \in SaveOutcomes(db) : db' = saveNotesToStorage(db, updatedNotes, ok)
            /\ nextId' = nextId + 1
            /\ UNCHANGED <<deleteTargetId, isStorageInitialized, saveStatus,
                           calls, ncalls, revoked, now>>
            /\ settled' = NoCall
            /\ UNCHANGED searchQuery
    /\ UNCHANGED scheduler
    /\ UNCHANGED isChatLoading
            /\ Restarted

\* duplicateNote (lines 201-223); line 204 returns when no session has the id.
duplicateNote(id) ==
    /\ isStorageInitialized
    /\ IF ~HasNote(notes, id)
       THEN UNCHANGED vars
       ELSE /\ LET noteToCopy == Find(notes, id)
                   newNote == duplicateOf(noteToCopy, nextId, nextUrl, now)
                   updatedNotes == <<newNote>> \o notes
               IN /\ notes' = updatedNotes
                  /\ nextUrl' = nextUrl + Len(noteToCopy.attachments)
                  /\ \E ok \in SaveOutcomes(db) : db' = saveNotesToStorage(db, updatedNotes, ok)
            /\ nextId' = nextId + 1
            /\ UNCHANGED <<activeNoteId, deleteTargetId, isStorageInitialized, saveStatus,
                           calls, ncalls, revoked, now>>
            /\ settled' = NoCall
            /\ UNCHANGED searchQuery
    /\ UNCHANGED scheduler
    /\ UNCHANGED isChatLoading
            /\ Restarted

\* addFilesToActiveNote, lines 121-138: the kind of a file.
AttachmentType(file) ==
    IF file.mime = "application/pdf" THEN "pdf"
    ELSE IF file.mime \in {"audio/webm", "audio/mpeg"} THEN "audio"
    ELSE IF file.ext \in {"doc", "docx"} THEN "doc"
    ELSE IF file.ext \in {"xls", "xlsx"} THEN "sheet"
    ELSE IF file.ext \in {"ppt", "pptx", "potx"} THEN "slide"
    ELSE IF file.ext = "txt" THEN "text"
    ELSE "image"

\* addFilesToActiveNote (lines 116-148), with one file.
addFilesToActiveNote(file) ==
    /\ isStorageInitialized
    /\ HasNote(notes, activeNoteId)
    /\ LET newPreviews == <<[file |-> file, url |-> nextUrl + 1,
                             type |-> AttachmentType(file)]>>
       IN notes' = updateActiveNote(notes, activeNoteId,
                       [attachments |-> ActiveNote.attachments \o newPreviews])
    /\ nextUrl' = nextUrl + 1
    /\ UNCHANGED <<activeNoteId, deleteTargetId, isStorageInitialized, saveStatus,
                   db, calls, ncalls, nextId, revoked, now>>
    /\ settled' = NoCall
    /\ UNCHANGED searchQuery
    /\ UNCHANGED scheduler
    /\ UNCHANGED isChatLoading
    /\ Restarted

\* attachments.splice(index, 1), index 1-based.
Splice(atts, index) ==
    [i \in 1..(Len(atts) - 1) |-> IF i < index THEN atts[i] ELSE atts[i + 1]]

\* removeFileFromActiveNote (lines 150-159).
removeFileFromActiveNote(index) ==
    /\ isStorageInitialized
    /\ HasNote(notes, activeNoteId)
    /\ index \in 1..Len(ActiveNote.attachments)
    /\ revoked' = revoked \cup {ActiveNote.attachments[index].url}
    /\ notes' = updateActiveNote(notes, activeNoteId,
                    [attachments |-> Splice(ActiveNote.attachments, index)])
    /\ UNCHANGED <<activeNoteId, deleteTargetId, isStorageInitialized, saveStatus,
                   db, calls, ncalls, nextId, nextUrl, now>>
    /\ settled' = NoCall
    /\ UNCHANGED searchQuery
    /\ UNCHANGED scheduler
    /\ UNCHANGED isChatLoading
    /\ Restarted

----------------------------------------------------------------------------
\* generateNoteContent (lines 225-264).

\* Lines 226-235: the guard, the transition to PROCESSING and the call, which
\* keeps the activeNoteId and the activeNote read at line 226-227.
generateNoteContent ==
    /\ isStorageInitialized
    /\ HasNote(notes, activeNoteId)
    /\ ActiveNote.status # PROCESSING
    /\ notes' = updateActiveNote(notes, activeNoteId,
                    [status |-> PROCESSING, error |-> NullError])
    /\ calls' = calls \cup {[n |-> ncalls + 1, kind |-> "note",
                             activeNoteId |-> activeNoteId, activeNote |-> ActiveNote,
                             content |-> ActiveNote.inputText,
                             parts |-> finalParts(ActiveNote.inputText,
                                                  [i \in 1..Len(ActiveNote.attachments) |->
                                                      ActiveNote.attachments[i].file])]}
    /\ ncalls' = ncalls + 1
    /\ UNCHANGED <<activeNoteId, deleteTargetId, isStorageInitialized, saveStatus,
                   db, nextId, nextUrl, revoked, now>>
    /\ settled' = NoCall
    /\ UNCHANGED searchQuery
    /\ UNCHANGED scheduler
    /\ UNCHANGED isChatLoading
    /\ Restarted

\* Lines 236-250: the session written when the call answers markdown.
updatedNote(activeNote, markdown, t) ==
    Merge(activeNote,
          [inputText |-> activeNote.inputText
                            \o <<SeparatorHtml, StyledAiHtml(markdownToHtml(markdown))>>,
           result |-> <<[markdown |-> markdown, timestamp |-> t]>>,
           status |-> SUCCESS,
           title |-> IF activeNote.title # EmptyTitle THEN activeNote.title ELSE SmartTitle])

\* A success merged into the session that is active when the call answers.
notesAfterSuccessOnActive(ns, c, markdown, t) ==
    ReplaceById(ns, activeNoteId, updatedNote(c.activeNote, markdown, t))

\* Lines 252-253: the collection after the success of call c.
notesAfterSuccess(ns, c, markdown, t) ==
    ReplaceById(ns, c.activeNoteId, updatedNote(c.activeNote, markdown, t))

\* A success branch that marks the session failed when its save failed.
generateNoteContentSuccessSaved(c, markdown) ==
    /\ c \in calls /\ c.kind = "note"
    /\ LET updatedNotes == notesAfterSuccess(notes, c, markdown, now)
       IN \E ok \in SaveOutcomes(db) :
             /\ db' = saveNotesToStorage(db, updatedNotes, ok)
             /\ notes' = IF ok THEN updatedNotes
                         ELSE MergeById(updatedNotes, c.activeNoteId,
                                        [status |-> ERROR, error |-> DefaultErrorMessage])
    /\ calls' = calls \ {c}
    /\ UNCHANGED <<activeNoteId, deleteTargetId, isStorageInitialized, saveStatus,
                   ncalls, nextId, nextUrl, revoked, now>>
    /\ Answered(c, "success")
    /\ UNCHANGED searchQuery
    /\ UNCHANGED scheduler
    /\ UNCHANGED isChatLoading
    /\ Restarted

\* Lines 236-255: the call answers markdown.
generateNoteContentSuccess(c, markdown) ==
    /\ c \in calls /\ c.kind = "note"
    /\ LET updatedNotes == notesAfterSuccess(notes, c, markdown, now)
       IN /\ notes' = updatedNotes
          /\ \E ok \in SaveOutcomes(db) : db' = saveNotesToStorage(db, updatedNotes, ok)
    /\ calls' = calls \ {c}
    /\ UNCHANGED <<activeNoteId, deleteTargetId, isStorageInitialized, saveStatus,
                   ncalls, nextId, nextUrl, revoked, now>>
    /\ Answered(c, "success")
    /\ UNCHANGED searchQuery
    /\ UNCHANGED scheduler
    /\ UNCHANGED isChatLoading
    /\ Restarted

\* Line 261: err.message || "An unexpected error occurred."
errorMessage(message) == IF message # "" THEN message ELSE DefaultErrorMessage

\* A catch that also empties the content of the session it marks.
notesAfterFailureEmptied(ns, active, c, message) ==
    updateActiveNote(ns, active, [status |-> ERROR, error |-> errorMessage(message),
                                  inputText |-> <<>>])

\* Lines 257-263: the collection after call c threw an error with this message.
notesAfterFailure(ns, active, c, message) ==
    updateActiveNote(ns, active, [status |-> ERROR, error |-> errorMessage(message)])

\* Lines 257-263: the call throws.
generateNoteContentCatch(c, message) ==
    /\ c \in calls /\ c.kind = "note"
    /\ notes' = notesAfterFailure(notes, activeNoteId, c, message)
    /\ calls' = calls \ {c}
    /\ UNCHANGED <<activeNoteId, deleteTargetId, isStorageInitialized, saveStatus,
                   db, ncalls, nextId, nextUrl, revoked, now>>
    /\ Answered(c, "failure")
    /\ UNCHANGED searchQuery
    /\ UNCHANGED scheduler
    /\ UNCHANGED isChatLoading
    /\ Restarted

----------------------------------------------------------------------------
\* sendChatMessage (lines 351-398) and clearChatHistory (lines 400-402).

ChatTexts == {"hi"}
ChatReplies == {"hello"}

\* A ChatMessage, its text given as its pieces; the error text is the prefix
\* of line 390 and the message.
UserMsg(text) == [role |-> "user", text |-> <<text>>, isError |-> FALSE]
AiMsg(text) == [role |-> "model", text |-> <<text>>, isError |-> FALSE]
ErrorMsg(message) ==
    [role |-> "model", text |-> <<"Sorry, I encountered an error: ", message>>,
     isError |-> TRUE]

\* Line 364: the history of the snapshot with the message of the user.
updatedHistory(c) == Append(c.activeNote.chatHistory, UserMsg(c.content[1]))

\* Lines 351-375: up to the await of chatWithNote; without an active session
\* the action returns at line 355.
sendChatMessage(text) ==
    /\ isChatLoading' = TRUE
    /\ UNCHANGED <<activeNoteId, deleteTargetId, isStorageInitialized, saveStatus,
                   db, nextId, nextUrl, revoked, now>>
    /\ IF ~HasNote(notes, activeNoteId)
       THEN /\ UNCHANGED <<notes, calls, ncalls, timer>>
            /\ settled' = NoCall
       ELSE /\ notes' = updateActiveNote(notes, activeNoteId,
                            [chatHistory |-> Append(ActiveNote.chatHistory, UserMsg(text))])
            /\ calls' = calls \cup {[n |-> ncalls + 1, kind |-> "chat",
                                     activeNoteId |-> activeNoteId, activeNote |-> ActiveNote,
                                     content |-> <<text>>, parts |-> <<>>]}
            /\ ncalls' = ncalls + 1
            /\ settled' = NoCall
            /\ Restarted
    /\ UNCHANGED searchQuery
    /\ UNCHANGED scheduler

\* Lines 384 and 394: the collection after the reply or the error message.
notesAfterChat(ns, active, c, msg) ==
    updateActiveNote(ns, active, [chatHistory |-> Append(updatedHistory(c), msg)])

\* Lines 376-385 and 395-397: chatWithNote answers.
sendChatMessageReply(c, responseText) ==
    /\ c \in calls /\ c.kind = "chat"
    /\ notes' = notesAfterChat(notes, activeNoteId, c, AiMsg(responseText))
    /\ calls' = calls \ {c}
    /\ isChatLoading' = FALSE
    /\ UNCHANGED <<activeNoteId, deleteTargetId, isStorageInitialized, saveStatus,
                   db, ncalls, nextId, nextUrl, revoked, now>>
    /\ Answered(c, "success")
    /\ UNCHANGED searchQuery
    /\ UNCHANGED scheduler
    /\ Restarted

\* Lines 386-397: chatWithNote throws.
sendChatMessageCatch(c, message) ==
    /\ c \in calls /\ c.kind = "chat"
    /\ notes' = notesAfterChat(notes, activeNoteId, c, ErrorMsg(message))
    /\ calls' = calls \ {c}
    /\ isChatLoading' = FALSE
    /\ UNCHANGED <<activeNoteId, deleteTargetId, isStorageInitialized, saveStatus,
                   db, ncalls, nextId, nextUrl, revoked, now>>
    /\ Answered(c, "failure")
    /\ UNCHANGED searchQuery
    /\ UNCHANGED scheduler
    /\ Restarted

\* Lines 400-402.
clearChatHistory ==
    /\ isStorageInitialized
    /\ HasNote(notes, activeNoteId)
    /\ ActiveNote.chatHistory # <<>>
    /\ notes' = updateActiveNote(notes, activeNoteId, [chatHistory |-> <<>>])
    /\ UNCHANGED <<activeNoteId, deleteTargetId, isStorageInitialized, saveStatus,
                   db, calls, ncalls, nextId, nextUrl, revoked, now>>
    /\ settled' = NoCall
    /\ UNCHANGED searchQuery
    /\ UNCHANGED scheduler
    /\ UNCHANGED isChatLoading
    /\ Restarted

----------------------------------------------------------------------------
\* generateWeeklySummary (lines 266-349).

\* Lines 299-305: the content up to the first separator (indexOf, substring).
contentToUse(inputText) ==
    IF \E i \in 1..Len(inputText) : inputText[i] = SeparatorHtml
    THEN SubSeq(inputText, 1,
                (CHOOSE i \in 1..Len(inputText) :
                    /\ inputText[i] = SeparatorHtml
                    /\ \A j \in 1..(i - 1) : inputText[j] # SeparatorHtml) - 1)
    ELSE inputText

\* Lines 292-314: the document sent, from entry i of the sessions on.
RECURSIVE aggregatedFrom(_, _)
aggregatedFrom(ws, i) ==
    IF i > Len(ws) THEN <<>>
    ELSE <<EntryOpenHtml>> \o contentToUse(ws[i].inputText) \o <<EntryCloseHtml>>
         \o aggregatedFrom(ws, i + 1)

aggregatedContent(ws) == <<AggregationHtml>> \o aggregatedFrom(ws, 1)

\* Lines 316-319: the placeholder session.
summaryNote(id, t) ==
    Merge(createNewNote(id, WeeklyTitle, t),
          [role |-> "weekly", status |-> PROCESSING, inputText |-> <<PlaceholderHtml>>])

\* An early return that records its message as the error of the active session.
generateWeeklySummaryNoneRecorded ==
    /\ isStorageInitialized
    /\ Len(weeklyNotes(notes, now)) = 0
    /\ notes' = updateActiveNote(notes, activeNoteId,
                                 [status |-> ERROR, error |-> "No notes found"])
    /\ UNCHANGED <<activeNoteId, deleteTargetId, isStorageInitialized, saveStatus,
                   db, calls, ncalls, nextId, nextUrl, revoked, now>>
    /\ About("weekly", NullId, "none")
    /\ searchQuery' = EmptyQuery
    /\ UNCHANGED isChatLoading
    /\ Restarted

\* Lines 266-290: no session of this week, nothing is generated.
generateWeeklySummaryNone ==
    /\ isStorageInitialized
    /\ Len(weeklyNotes(notes, now)) = 0
    /\ UNCHANGED <<notes, activeNoteId, deleteTargetId, isStorageInitialized, saveStatus,
                   db, calls, ncalls, nextId, nextUrl, revoked, now>>
    /\ About("weekly", NullId, "none")
    /\ searchQuery' = EmptyQuery
    /\ UNCHANGED isChatLoading
    /\ UNCHANGED timer

\* Lines 266-329: the placeholder session is inserted and the call started.
generateWeeklySummary ==
    /\ isStorageInitialized
    /\ Len(weeklyNotes(notes, now)) > 0
    /\ LET summary == summaryNote(nextId, now)
       IN /\ notes' = <<summary>> \o notes
          /\ activeNoteId' = summary.id
          /\ calls' = calls \cup {[n |-> ncalls + 1, kind |-> "weekly",
                                   activeNoteId |-> summary.id, activeNote |-> summary,
                                   content |-> aggregatedContent(weeklyNotes(notes, now)),
                                   parts |-> finalParts(aggregatedContent(weeklyNotes(notes, now)),
                                                        <<>>)]}
    /\ nextId' = nextId + 1
    /\ ncalls' = ncalls + 1
    /\ UNCHANGED <<deleteTargetId, isStorageInitialized, saveStatus,
                   db, nextUrl, revoked, now>>
    /\ settled' = NoCall
    /\ searchQuery' = EmptyQuery
    /\ UNCHANGED isChatLoading
    /\ Restarted

\* Lines 333-338.
updatedSummaryNote(summary, markdown, t) ==
    Merge(summary,
          [result |-> <<[markdown |-> markdown, timestamp |-> t]>>,
           status |-> SUCCESS,
           inputText |-> <<StyledAiHtml(markdownToHtml(markdown))>>])

\* Lines 330-342: the call answers markdown.
generateWeeklySummarySuccess(c, markdown) ==
    /\ c \in calls /\ c.kind = "weekly"
    /\ LET finalNotes == ReplaceById(notes, c.activeNoteId,
                                     updatedSummaryNote(c.activeNote, markdown, now))
       IN /\ notes' = finalNotes
          /\ \E ok \in SaveOutcomes(db) : db' = saveNotesToStorage(db, finalNotes, ok)
    /\ calls' = calls \ {c}
    /\ UNCHANGED <<activeNoteId, deleteTargetId, isStorageInitialized, saveStatus,
                   ncalls, nextId, nextUrl, revoked, now>>
    /\ Answered(c, "success")
    /\ UNCHANGED searchQuery
    /\ UNCHANGED scheduler
    /\ UNCHANGED isChatLoading
    /\ Restarted

\* Lines 344-348: the call throws.
generateWeeklySummaryCatch(c, message) ==
    /\ c \in calls /\ c.kind = "weekly"
    /\ notes' = MergeById(notes, c.activeNoteId, [status |-> ERROR, error |-> message])
    /\ calls' = calls \ {c}
    /\ UNCHANGED <<activeNoteId, deleteTargetId, isStorageInitialized, saveStatus,
                   db, ncalls, nextId, nextUrl, revoked, now>>
    /\ Answered(c, "failure")
    /\ UNCHANGED searchQuery
    /\ UNCHANGED scheduler
    /\ UNCHANGED isChatLoading
    /\ Restarted

----------------------------------------------------------------------------
\* The store under the user interface of src/unnamed/part_005 (App) and
\* src/components/Sidebar.tsx.

\* The delete modal (src/components/SettingsModal.tsx, lines 70-103) covers
\* the window while deleteTargetId is set: no other control can be clicked.
ModalClosed == deleteTargetId = NullId

\* The guards that keep the model finite.
HasId == nextId < MaxIds
CanCall(max) == ncalls < max
DeleteHasId == Len(FilterOut(notes, deleteTargetId)) > 0 \/ HasId

Completion ==
    \/ \E c \in calls, markdown \in Markdowns : generateNoteContentSuccess(c, markdown)
    \/ \E c \in calls, message \in FailureMessages : generateNoteContentCatch(c, message)
    \/ \E c \in calls, markdown \in Markdowns : generateWeeklySummarySuccess(c, markdown)
    \/ \E c \in calls, message \in FailureMessages : generateWeeklySummaryCatch(c, message)

\* The store with its sessions created, duplicated, deleted, generated and
\* summarised; nothing is typed.
Next ==
    \/ init
    \/ ModalClosed /\ \E id \in Ids(notes) : setActiveNoteId(id)
    \/ \E id \in Ids(notes) \cup {NullId} : setDeleteTargetId(id)
    \/ ModalClosed /\ HasId /\ addNote
    \/ DeleteHasId /\ deleteNote
    \/ ModalClosed /\ HasId /\ \E id \in Ids(notes) : duplicateNote(id)
    \/ ModalClosed /\ CanCall(MaxCalls) /\ generateNoteContent
    \/ ModalClosed /\ generateWeeklySummaryNone /\ UNCHANGED scheduler
    \/ HasId /\ CanCall(MaxCalls) /\ generateWeeklySummary /\ UNCHANGED scheduler
    \/ Completion

Spec == Init /\ [][Next]_vars

\* The store while the user edits: sessions are created, typed in, switched,
\* deleted and generated.
InitEdit == InitOver({EarlierRun})

NextEdit ==
    \/ init
    \/ ModalClosed /\ \E id \in Ids(notes) : setActiveNoteId(id)
    \/ \E id \in Ids(notes) \cup {NullId} : setDeleteTargetId(id)
    \/ ModalClosed /\ HasId /\ addNote
    \/ onChangeText
    \/ DeleteHasId /\ deleteNote
    \/ ModalClosed /\ CanCall(MaxCalls) /\ generateNoteContent
    \/ \E c \in calls, markdown \in Markdowns : generateNoteContentSuccess(c, markdown)
    \/ \E c \in calls, message \in FailureMessages : generateNoteContentCatch(c, message)

SpecEdit == InitEdit /\ [][NextEdit]_vars

\* The store while the user attaches and removes files and deletes sessions.
CanAttach == nextUrl < MaxUrls

NextFiles ==
    \/ init
    \/ ModalClosed /\ \E id \in Ids(notes) : setActiveNoteId(id)
    \/ \E id \in Ids(notes) \cup {NullId} : setDeleteTargetId(id)
    \/ ModalClosed /\ HasId /\ addNote
    \/ DeleteHasId /\ deleteNote
    \/ ModalClosed /\ CanAttach /\ \E file \in {PdfFile, PngFile} : addFilesToActiveNote(file)
    \/ ModalClosed /\ \E index \in 1..MaxUrls : removeFileFromActiveNote(index)
    \/ ModalClosed /\ saveNotes

SpecFiles == Init /\ [][NextFiles]_vars

\* The store while the user attaches and removes files, duplicates a session
\* and generates.
NextAttach ==
    \/ init
    \/ CanAttach /\ \E file \in {PdfFile, PngFile} : addFilesToActiveNote(file)
    \/ \E index \in 1..MaxUrls : removeFileFromActiveNote(index)
    \/ HasId /\ \E id \in Ids(notes) : duplicateNote(id)
    \/ CanCall(MaxCalls) /\ generateNoteContent
    \/ \E c \in calls, markdown \in Markdowns : generateNoteContentSuccess(c, markdown)
    \/ \E c \in calls, message \in FailureMessages : generateNoteContentCatch(c, message)

SpecAttach == InitEdit /\ [][NextAttach]_vars

\* The store of a user who generates, switches sessions and retries: two
\* stored sessions, no session created or deleted.
InitCalls == InitOver({LongerRun})

NextCalls ==
    \/ init
    \/ \E id \in Ids(notes) : setActiveNoteId(id)
    \/ CanCall(MaxRetries) /\ generateNoteContent
    \/ dismissError
    \/ \E c \in calls, markdown \in Markdowns : generateNoteContentSuccess(c, markdown)
    \/ \E c \in calls, message \in FailureMessages : generateNoteContentCatch(c, message)

SpecCalls == InitCalls /\ [][NextCalls]_vars

\* The store of a user who creates, selects and deletes sessions, starting
\* from two stored sessions.
CanCreate == nextId < MaxSessions

NextDelete ==
    \/ init
    \/ ModalClosed /\ \E id \in Ids(notes) : setActiveNoteId(id)
    \/ \E id \in Ids(notes) \cup {NullId} : setDeleteTargetId(id)
    \/ ModalClosed /\ CanCreate /\ addNote
    \/ (Len(FilterOut(notes, deleteTargetId)) > 0 \/ CanCreate) /\ deleteNote

SpecDelete == InitCalls /\ [][NextDelete]_vars

\* The store while the user types, creates, duplicates and deletes sessions
\* and saves, with the auto-save effect and the passing of its delay.
NextSave ==
    \/ init
    \/ ModalClosed /\ \E id \in Ids(notes) : setActiveNoteId(id)
    \/ \E id \in Ids(notes) \cup {NullId} : setDeleteTargetId(id)
    \/ ModalClosed /\ HasId /\ addNote
    \/ DeleteHasId /\ deleteNote
    \/ ModalClosed /\ HasId /\ \E id \in Ids(notes) : duplicateNote(id)
    \/ ModalClosed /\ onChangeText
    \/ saveNotes
    \/ autoSave
    \/ Tick

SpecSave == Init /\ [][NextSave]_vars

\* The same when the browser runs what is due: the effect that calls init
\* (part_005, lines 29-31), the delay of the timeout and its callback.
SpecSaveFair == SpecSave /\ WF_vars(init) /\ WF_vars(Tick) /\ WF_vars(autoSave)

\* Date.now() returns a later value than at its last read (createNewNote,
\* src/unnamed/part_007, line 42; duplicateNote, line 210).
passTime ==
    /\ now' = now + 1
    /\ UNCHANGED <<notes, activeNoteId, deleteTargetId, isStorageInitialized, saveStatus,
                   db, calls, ncalls, nextId, nextUrl, revoked, timer, settled, searchQuery, scheduler, isChatLoading>>

\* The store while sessions are created, duplicated, typed in, given files
\* and generated, and while the clock advances.
NextRoundTrip ==
    \/ init
    \/ HasId /\ addNote
    \/ HasId /\ \E id \in Ids(notes) : duplicateNote(id)
    \/ onChangeText
    \/ CanAttach /\ \E file \in {PdfFile, PngFile} : addFilesToActiveNote(file)
    \/ CanCall(MaxCalls) /\ generateNoteContent
    \/ \E c \in calls, markdown \in Markdowns : generateNoteContentSuccess(c, markdown)
    \/ saveNotes
    \/ now < Saturday + MaxElapsed /\ passTime

SpecRoundTrip == Init /\ [][NextRoundTrip]_vars

\* The store of a user who generates, switches sessions and titles them.
NextTitle ==
    \/ init
    \/ \E id \in Ids(notes) : setActiveNoteId(id)
    \/ CanCall(MaxRetries) /\ generateNoteContent
    \/ onChangeTitle
    \/ \E c \in calls, markdown \in Markdowns : generateNoteContentSuccess(c, markdown)
    \/ \E c \in calls, message \in FailureMessages : generateNoteContentCatch(c, message)

SpecTitle == InitCalls /\ [][NextTitle]_vars

\* The editor and the search box: the user searches for one or more keywords
\* and types into the session shown.
Keywords == UNION {[1..n -> Letters] : n \in 1..MaxText}
Queries == UNION {[1..n -> Keywords] : n \in 0..MaxKeywords}

InitSearch == InitOver(TypedRun)

NextSearch ==
    \/ init
    \/ \E query \in Queries : setSearchQuery(query)
    \/ onChangeText

SpecSearch == InitSearch /\ [][NextSearch]_vars

\* The weekly summary asked for at any time of two weeks, over one session
\* created at any time of these weeks.
WindowTimes == 0..(14 * TicksPerDay - 1)

WindowRun ==
    {[opened |-> TRUE, flaky |-> FALSE,
      records |-> <<[StoredNewer EXCEPT !.createdAt = t]>>] : t \in WindowTimes}

InitWindow == InitAt(WindowRun, WindowTimes)

NextWindow ==
    \/ init
    \/ generateWeeklySummaryNone /\ UNCHANGED scheduler
    \/ HasId /\ CanCall(MaxCalls) /\ generateWeeklySummary /\ UNCHANGED scheduler
    \/ \E c \in calls, markdown \in Markdowns : generateWeeklySummarySuccess(c, markdown)
    \/ \E c \in calls, message \in FailureMessages : generateWeeklySummaryCatch(c, message)

SpecWindow == InitWindow /\ [][NextWindow]_vars

\* A working day on which the user generates, asks for weekly summaries and
\* duplicates sessions.
Wednesday == 10 * TicksPerDay

InitWeekly == InitAt({EarlierRun}, {Wednesday})

NextWeekly ==
    \/ init
    \/ \E id \in Ids(notes) : setActiveNoteId(id)
    \/ CanCreate /\ \E id \in Ids(notes) : duplicateNote(id)
    \/ CanCall(MaxRetries) /\ generateNoteContent
    \/ CanCreate /\ CanCall(MaxRetries) /\ generateWeeklySummary /\ UNCHANGED scheduler
    \/ \E c \in calls, markdown \in Markdowns :
          \/ generateNoteContentSuccess(c, markdown)
          \/ generateWeeklySummarySuccess(c, markdown)
    \/ \E c \in calls, message \in FailureMessages : generateWeeklySummaryCatch(c, message)

SpecWeekly == InitWeekly /\ [][NextWeekly]_vars

----------------------------------------------------------------------------
\* src/unnamed/part_005, lines 44-62: the weekly summary scheduler.

\* The variables of the store and its environment.
store == <<notes, activeNoteId, deleteTargetId, isStorageInitialized, saveStatus,
           db, calls, ncalls, nextId, nextUrl, revoked, now, timer, settled,
           searchQuery, isChatLoading>>

\* Date.now() in the slot w: the hours from 17:00 on are the last tick of a day.
NowOf(w) ==
    (w \div SlotsPerDay) * TicksPerDay
       + (IF w % SlotsPerDay >= MinuteStart THEN TicksPerDay - 1 ELSE 0)

\* now.getHours() === 17 && now.getMinutes() === 0
AtFivePm(w) ==
    w % SlotsPerDay >= MinuteStart /\ w % SlotsPerDay < MinuteStart + MinuteSlots

\* now.toDateString()
todayStr(t) == DayOf(t)

\* Ten seconds pass in which the interval does not fire. The load of init,
\* started at the mount, is over by then.
passSlot ==
    /\ isStorageInitialized
    /\ wall - checkedAt < CheckSlots
    /\ wall' = wall + 1
    /\ now' = NowOf(wall + 1)
    /\ UNCHANGED <<notes, activeNoteId, deleteTargetId, isStorageInitialized, saveStatus,
                   db, calls, ncalls, nextId, nextUrl, revoked, timer, settled, searchQuery,
                   isChatLoading>>
    /\ UNCHANGED <<mountedAt, checkedAt, lastRunDate, autoRuns>>

\* A checkTime that does not write the marker.
checkTimeUnmarked ==
    /\ isStorageInitialized
    /\ wall - checkedAt = CheckSlots
    /\ checkedAt' = wall
    /\ UNCHANGED <<wall, mountedAt>>
    /\ IF getDay(now) = 5 /\ AtFivePm(wall) /\ lastRunDate # todayStr(now)
       THEN /\ generateWeeklySummaryNone \/ generateWeeklySummary
            /\ UNCHANGED lastRunDate
            /\ autoRuns' = Append(autoRuns, todayStr(now))
       ELSE UNCHANGED <<store, lastRunDate, autoRuns>>

\* Lines 45-58: the interval fires, 30 seconds after the mount or the last
\* run; generateWeeklySummary(true) runs up to its first await, then the
\* marker is written.
checkTime ==
    /\ isStorageInitialized
    /\ wall - checkedAt = CheckSlots
    /\ checkedAt' = wall
    /\ UNCHANGED <<wall, mountedAt>>
    /\ IF getDay(now) = 5 /\ AtFivePm(wall) /\ lastRunDate # todayStr(now)
       THEN /\ generateWeeklySummaryNone \/ generateWeeklySummary
            /\ lastRunDate' = todayStr(now)
            /\ autoRuns' = Append(autoRuns, todayStr(now))
       ELSE UNCHANGED <<store, lastRunDate, autoRuns>>

\* The application is opened on a Thursday or on the Friday after it, over a
\* session of this week or of last week and the marker of last Friday or
\* none, and stays open to the end of Saturday.
LastWeekRun ==
    [opened |-> TRUE, flaky |-> FALSE,
     records |-> <<[StoredNewer EXCEPT !.createdAt = 5 * TicksPerDay]>>]

MountSlots == (11 * SlotsPerDay)..(13 * SlotsPerDay - 1)
LastSlot == 14 * SlotsPerDay - 1

InitTimed ==
    /\ InitStore({EarlierRun, LastWeekRun}, WindowTimes)
    /\ InitScheduler(MountSlots, {NoDate, 5})
    /\ now = NowOf(wall)

NextTimed ==
    \/ init
    \/ wall < LastSlot /\ passSlot
    \/ CanCreate /\ CanCall(MaxRetries) /\ checkTime
    \/ \E c \in calls, markdown \in Markdowns : generateWeeklySummarySuccess(c, markdown)
    \/ \E c \in calls, message \in FailureMessages : generateWeeklySummaryCatch(c, message)

SpecTimed == InitTimed /\ [][NextTimed]_vars

\* Generation over a session whose content is text, white space, line
\* breaks, pasted images and links, with up to two files attached.
RequestPieces == {TypedHtml, SpaceHtml, BreakHtml, ImageHtml, LinkHtml}

RequestRun ==
    {[opened |-> TRUE, flaky |-> FALSE,
      records |-> <<[StoredNewer EXCEPT !.inputText = html, !.attachments = files]>>] :
        html \in UNION {[1..n -> RequestPieces] : n \in 0..MaxNodes},
        files \in {<<>>, <<[file |-> PdfFile, type |-> "pdf"]>>,
                   <<[file |-> PdfFile, type |-> "pdf"], [file |-> PngFile, type |-> "image"]>>}}

InitRequest == InitOver(RequestRun)

NextRequest ==
    \/ init
    \/ CanCall(MaxCalls) /\ generateNoteContent
    \/ \E c \in calls, markdown \in Markdowns : generateNoteContentSuccess(c, markdown)
    \/ \E c \in calls, message \in FailureMessages : generateNoteContentCatch(c, message)

SpecRequest == InitRequest /\ [][NextRequest]_vars

\* The chat: the user sends messages, switches sessions and clears a
\* history; chatWithNote answers or throws.
NextChat ==
    \/ init
    \/ \E id \in Ids(notes) : setActiveNoteId(id)
    \/ CanCall(MaxRetries) /\ \E text \in ChatTexts : sendChatMessage(text)
    \/ clearChatHistory
    \/ \E c \in calls, responseText \in ChatReplies : sendChatMessageReply(c, responseText)
    \/ \E c \in calls, message \in FailureMessages : sendChatMessageCatch(c, message)

SpecChat == InitCalls /\ [][NextChat]_vars

\* The listing and the search box: the user searches, titles sessions and
\* generates.
ListingKeywords == {<<"T">>, <<"u">>, <<TypedHtml>>, <<"# Summary">>}
ListingQueries == UNION {[1..n -> ListingKeywords] : n \in 0..MaxKeywords}

NextListing ==
    \/ init
    \/ \E id \in Ids(notes) : setActiveNoteId(id)
    \/ \E query \in ListingQueries : setSearchQuery(query)
    \/ onChangeTitle
    \/ CanCall(MaxCalls) /\ generateNoteContent
    \/ \E c \in calls, markdown \in Markdowns : generateNoteContentSuccess(c, markdown)

SpecListing == InitCalls /\ [][NextListing]_vars

\* The actions of the store called with any id, of a session or not.
AnyIds == 1..MaxSessions

NextApi ==
    \/ init
    \/ \E id \in AnyIds : setActiveNoteId(id)
    \/ CanCreate /\ \E id \in AnyIds : duplicateNote(id)
    \/ ModalClosed /\ onChangeText

SpecApi == InitCalls /\ [][NextApi]_vars

\* The store while sessions are selected, generated and duplicated;
\* duplicateNote is called with any id.
NextDuplicate ==
    \/ init
    \/ \E id \in Ids(notes) : setActiveNoteId(id)
    \/ CanCreate /\ \E id \in AnyIds : duplicateNote(id)
    \/ CanCall(MaxCalls) /\ generateNoteContent
    \/ \E c \in calls, markdown \in Markdowns : generateNoteContentSuccess(c, markdown)

SpecDuplicate == InitCalls /\ [][NextDuplicate]_vars

\* The start of the application over the records of any earlier run.
InitLoad == InitOver(AnyRun)

NextLoad ==
    \/ init
    \/ \E id \in Ids(notes) : setActiveNoteId(id)

SpecLoad == InitLoad /\ [][NextLoad]_vars

\* The start of the application on a first run, over a database that holds
\* no record, or over the records of any earlier run.
ClearedRun == [opened |-> TRUE, flaky |-> FALSE, records |-> <<>>]

InitStart == InitOver(AnyRun \cup {NeverOpened, ClearedRun})

SpecStart == InitStart /\ [][NextLoad]_vars

\* The store over an object store whose transactions may fail: every
\* operation that saves, and the auto-save effect; the collaborator answers.
InitFailing == InitOver({FailingRun})

NextFailing ==
    \/ init
    \/ \E id \in Ids(notes) \cup {NullId} : setDeleteTargetId(id)
    \/ ModalClosed /\ HasId /\ addNote
    \/ DeleteHasId /\ deleteNote
    \/ ModalClosed /\ HasId /\ \E id \in Ids(notes) : duplicateNote(id)
    \/ ModalClosed /\ CanCall(MaxCalls) /\ generateNoteContent
    \/ \E c \in calls, markdown \in Markdowns : generateNoteContentSuccess(c, markdown)
    \/ ModalClosed /\ saveNotes
    \/ autoSave
    \/ Tick

SpecFailing == InitFailing /\ [][NextFailing]_vars

\* The store when the collaborator answers every call: generateSmartNote
\* returns or throws (src/services/geminiService.ts, lines 153-240), and the
\* continuation of the await then runs.
SpecFair == Spec /\ WF_vars(Completion)

----------------------------------------------------------------------------
\* Properties of the store.

StatusOf(id) == Find(notes, id).status

\* The step is the success of call c with this markdown (the history variable
\* is compared first: it tells the answers from the other steps).
Succeeds(c, markdown) ==
    settled'.outcome = "success" /\ generateNoteContentSuccess(c, markdown)

\* The step is the failure of call c with this message.
Fails(c, message) ==
    settled'.outcome = "failure" /\ generateNoteContentCatch(c, message)

\* The step is the answer of call c.
Answers(c) ==
    /\ settled'.outcome # "none"
    /\ \/ \E markdown \in Markdowns : generateNoteContentSuccess(c, markdown)
       \/ \E message \in FailureMessages : generateNoteContentCatch(c, message)
       \/ \E markdown \in Markdowns : generateWeeklySummarySuccess(c, markdown)
       \/ \E message \in FailureMessages : generateWeeklySummaryCatch(c, message)

\* The markup a successful generation appends for this markdown.
GeneratedMarkup(markdown) == <<SeparatorHtml, StyledAiHtml(markdownToHtml(markdown))>>

EndsWith(content, tail) ==
    /\ Len(content) >= Len(tail)
    /\ SubSeq(content, Len(content) - Len(tail) + 1, Len(content)) = tail

\* C1: once init has completed, after every addNote, deleteNote, duplicateNote,
\* generateWeeklySummary or answer of a generation, in any order, notes is
\* non-empty and activeNoteId is the id of a session contained in notes.
C1_ActiveSessionPresent ==
    isStorageInitialized => (Len(notes) > 0 /\ HasNote(notes, activeNoteId))

\* C1 happens: the only session was deleted while its generation was in flight,
\* a fresh session took its place, and the call has just answered.
C1_Witness ==
    /\ settled.kind = "note"
    /\ ~settled.present
    /\ Len(notes) = 1
    /\ notes[1].id # settled.id
    /\ activeNoteId = notes[1].id

\* C2: for every session at most one generation call is in flight at any time,
\* whatever generateNoteContent invocations, switches of the active session and
\* answers (success or failure) of the calls of other sessions happen.
C2_OneCallInFlightPerSession ==
    \A id \in Ids(notes) :
        Cardinality({c \in calls : c.kind = "note" /\ c.activeNoteId = id}) <= 1

\* C3: when generateNoteContent was invoked for session A and another session B
\* is active when the call fails, the failure is recorded on A (status ERROR,
\* error the failure message) and the status and error of B are unchanged.
C3_FailureRecordedOnInvokedSession ==
    [][\A c \in calls, message \in FailureMessages :
          (/\ Fails(c, message)
           /\ activeNoteId # c.activeNoteId
           /\ HasNote(notes, c.activeNoteId)
           /\ HasNote(notes, activeNoteId))
          => /\ Find(notes', c.activeNoteId).status = ERROR
             /\ Find(notes', c.activeNoteId).error = errorMessage(message)
             /\ Find(notes', activeNoteId).status = Find(notes, activeNoteId).status
             /\ Find(notes', activeNoteId).error = Find(notes, activeNoteId).error]_vars

\* C4: when the call of session A succeeds after the user switched to, created,
\* edited or deleted other sessions, the generated markup, the result and the
\* status SUCCESS are applied to the session with the id captured at the
\* invocation, and no other session and no active id changes.
C4_SuccessAppliedToCapturedSession ==
    [][\A c \in calls, markdown \in Markdowns :
          Succeeds(c, markdown)
          => /\ Len(notes') = Len(notes)
             /\ activeNoteId' = activeNoteId
             /\ \A i \in 1..Len(notes) :
                   IF notes[i].id = c.activeNoteId
                   THEN /\ notes'[i].id = c.activeNoteId
                        /\ notes'[i].status = SUCCESS
                        /\ notes'[i].result = <<[markdown |-> markdown, timestamp |-> now]>>
                        /\ EndsWith(notes'[i].inputText, GeneratedMarkup(markdown))
                   ELSE notes'[i] = notes[i]]_vars

\* C4 happens: a call has just succeeded for a session that is not the active
\* one; the active session was created after the invocation and typed in.
C4_Witness ==
    /\ settled.kind = "note" /\ settled.outcome = "success"
    /\ settled.present
    /\ settled.active # settled.id
    /\ StatusOf(settled.id) = SUCCESS
    /\ HasNote(notes, activeNoteId)
    /\ ActiveNote.id > settled.id
    /\ ActiveNote.inputText = <<TemplateHtml, TypedHtml>>
    /\ ActiveNote.status = IDLE

\* C5: when the collaborator answers every call, every session that is
\* PROCESSING and is not deleted eventually has status SUCCESS or ERROR.
C5_ProcessingResolves ==
    \A id \in 1..MaxIds :
        (HasNote(notes, id) /\ StatusOf(id) = PROCESSING)
            ~> (~HasNote(notes, id) \/ StatusOf(id) \in {SUCCESS, ERROR})

\* C6: when a generation invoked on a session whose last attempt failed
\* succeeds, the session has status SUCCESS and error null.
C6_RetrySuccessHasNoError ==
    [][\A c \in calls, markdown \in Markdowns :
          (/\ Succeeds(c, markdown)
           /\ c.activeNote.status = ERROR
           /\ HasNote(notes, c.activeNoteId))
          => /\ Find(notes', c.activeNoteId).status = SUCCESS
             /\ Find(notes', c.activeNoteId).error = NullError]_vars

\* C7: immediately after the success merge the content of the target session is
\* the content it held immediately before the merge, followed by the separator
\* and the generated markup.
C7_SuccessAppendsToCurrentContent ==
    [][\A c \in calls, markdown \in Markdowns :
          (Succeeds(c, markdown) /\ HasNote(notes, c.activeNoteId))
          => Find(notes', c.activeNoteId).inputText
                = Find(notes, c.activeNoteId).inputText \o GeneratedMarkup(markdown)]_vars

\* C8: when the session of a call was deleted before the call answers, the
\* answer (success or failure) leaves the collection and the active id
\* unchanged.
C8_AnswerForDeletedSessionIsNoOp ==
    [][\A c \in calls :
          (Answers(c) /\ ~HasNote(notes, c.activeNoteId))
          => (notes' = notes /\ activeNoteId' = activeNoteId)]_vars

\* C9: no record of the object store has status PROCESSING, whatever the
\* statuses of the sessions that were saved.
C9_NoDurableProcessing ==
    \A id \in DOMAIN db.records : db.records[id].status # PROCESSING

\* C9 happens: the placeholder of the weekly summary, which is PROCESSING since
\* its creation, has a record, and its call is still in flight.
C9_Witness ==
    \E i \in 1..Len(notes) :
        /\ notes[i].role = "weekly"
        /\ notes[i].status = PROCESSING
        /\ \E c \in calls : c.activeNoteId = notes[i].id
        /\ notes[i].id \in DOMAIN db.records
        /\ db.records[notes[i].id].status = IDLE

\* C10: deleteNote revokes the object URL of every attachment of the deleted
\* session.
C10_DeleteRevokesObjectUrls ==
    [][deleteNote
       => \A i \in 1..Len(notes) :
             notes[i].id = deleteTargetId
             => \A k \in 1..Len(notes[i].attachments) :
                   notes[i].attachments[k].url \in revoked']_vars

\* C11: when the active session is deleted and another session remains, the
\* new active session is the one that preceded the deleted session in the
\* order before the delete, or the first remaining session when the deleted
\* session was first; deleting a session that is not active leaves
\* activeNoteId unchanged.
C11_DeleteSelectsPredecessor ==
    [][(deleteNote /\ Len(FilterOut(notes, deleteTargetId)) > 0)
       => IF activeNoteId = deleteTargetId
          THEN LET deletedIndex == FindIndex(notes, deleteTargetId)
               IN activeNoteId' = IF deletedIndex > 1
                                  THEN notes[deletedIndex - 1].id
                                  ELSE notes'[1].id
          ELSE activeNoteId' = activeNoteId]_vars

\* C11 happens: the active session, third or later in the order, has just
\* been deleted, and its predecessor (not the first session) is active.
C11_Witness ==
    /\ settled.kind = "delete"
    /\ settled.id = settled.active
    /\ settled.index >= 3
    /\ Len(notes) = settled.count - 1
    /\ activeNoteId = notes[settled.index - 1].id
    /\ activeNoteId # notes[1].id

\* C12: deleting the only remaining session leaves exactly one session, which
\* has a new id, an empty title, no attachments, no result, an empty chat
\* history, status IDLE and error null, and is the active session.
C12_DeleteLastLeavesFreshSession ==
    [][(deleteNote /\ Len(FilterOut(notes, deleteTargetId)) = 0)
       => /\ Len(notes') = 1
          /\ notes'[1].id \notin Ids(notes)
          /\ notes'[1].title = EmptyTitle
          /\ notes'[1].attachments = <<>>
          /\ notes'[1].result = <<>>
          /\ notes'[1].chatHistory = <<>>
          /\ notes'[1].status = IDLE
          /\ notes'[1].error = NullError
          /\ activeNoteId' = notes'[1].id]_vars

\* C12 happens: the only session, which had a title and an attachment, has
\* just been deleted and one other session is there.
C12_Witness ==
    /\ settled.kind = "delete"
    /\ settled.present
    /\ settled.count = 1
    /\ settled.id = 1
    /\ Len(notes) = 1
    /\ notes[1].id # settled.id
    /\ activeNoteId = notes[1].id

\* C13: in every reachable state no attachment of a session of the collection
\* carries an object URL that has been revoked.
C13_AttachmentUrlsLive ==
    \A i \in 1..Len(notes) :
        \A k \in 1..Len(notes[i].attachments) :
            notes[i].attachments[k].url \notin revoked

\* C14: an explicit save issued while the debounced save is pending cancels it
\* or makes it write nothing: the timeout does not write the collection again
\* when no operation followed the explicit save.
C14_ExplicitSaveCancelsPending ==
    [][autoSave => settled.kind # "save"]_vars

\* C15: every mutation of the collection restarts the delay; the debounced
\* delay only counts down while no mutation arrives; the debounced save fires
\* only when the whole delay has passed since the last mutation, and after it
\* fired no timeout is pending.
C15_MutationRestartsDelay ==
    [][/\ (notes' # notes => timer' = DelayTicks)
       /\ (notes' = notes => (timer' = timer \/ (timer > 0 /\ timer' = timer - 1) \/ autoSave))
       /\ (autoSave => (timer = 0 /\ timer' = NoTimer))]_vars

\* C15 happens: the session was typed in, the delay passed, the debounced save
\* fired and wrote the typed content, and no timeout is pending.
C15_Witness ==
    /\ isStorageInitialized
    /\ timer = NoTimer
    /\ HasNote(notes, activeNoteId)
    /\ ActiveNote.inputText = <<TemplateHtml, TypedHtml>>
    /\ activeNoteId \in DOMAIN db.records
    /\ db.records[activeNoteId].inputText = ActiveNote.inputText
    /\ Len(notes) = 1

\* The step is an operation that saves the collection it leaves: addNote,
\* deleteNote, duplicateNote, the success of a call, the save buttons and the
\* auto-save timeout.
SaveIssued ==
    \/ addNote
    \/ deleteNote
    \/ \E id \in Ids(notes) : duplicateNote(id)
    \/ \E c \in calls, markdown \in Markdowns : generateNoteContentSuccess(c, markdown)
    \/ saveNotes
    \/ autoSave

\* The step is an init whose load failed although the object store has records.
LoadFailed == db.records # <<>> /\ nextId' # nextId /\ init

\* The step issued a save that failed: the object store is as before although
\* the collection differs from its records.
SaveFailed ==
    /\ db.flaky
    /\ db' = db
    /\ saveNotesToStorage(db, notes', TRUE) # db
    /\ SaveIssued

\* C16: every save that fails sets saveStatus to 'error', whichever operation
\* issued it.
C16_FailedSaveSetsErrorStatus ==
    [][SaveFailed => saveStatus' = "error"]_vars

Consistent == db.records = saveNotesToStorage(db, notes, TRUE).records

\* C18: when the mutations of the collection stop, from some point on the
\* records of the object store are those of the collection in memory, and
\* they stay so.
C18_EventuallyConsistent ==
    (<>[][notes' = notes]_vars) => <>[](isStorageInitialized /\ Consistent)

\* C18 happens: two sessions, one typed in, no timeout pending, and the
\* records are those of the collection.
C18_Witness ==
    /\ isStorageInitialized
    /\ timer = NoTimer
    /\ Len(notes) = 2
    /\ \E i \in 1..2 : notes[i].inputText = <<TemplateHtml, TypedHtml>>
    /\ Consistent

\* The object URLs of a collection, session after session.
RECURSIVE UrlsOf(_)
UrlsOf(ns) ==
    IF ns = <<>> THEN <<>>
    ELSE [k \in 1..Len(Head(ns).attachments) |-> Head(ns).attachments[k].url] \o UrlsOf(Tail(ns))

\* C19: every session init gets from loadNotesFromStorage has a status other
\* than PROCESSING (a stored PROCESSING is IDLE) and no error, and every
\* attachment has an object URL of its own, created by this load and not
\* revoked.
C19_LoadedSessionsAreSettled ==
    [][(init /\ nextId' = nextId) =>
          /\ \A i \in 1..Len(notes') :
                /\ notes'[i].status # PROCESSING
                /\ notes'[i].status =
                      (IF db.records[notes'[i].id].status = PROCESSING THEN IDLE
                       ELSE db.records[notes'[i].id].status)
                /\ notes'[i].error = NullError
                /\ Len(notes'[i].attachments) = Len(db.records[notes'[i].id].attachments)
          /\ LET urls == UrlsOf(notes')
             IN /\ \A k \in 1..Len(urls) : urls[k] > nextUrl /\ urls[k] <= nextUrl' /\ urls[k] \notin revoked'
                /\ \A k, l \in 1..Len(urls) : k # l => urls[k] # urls[l]]_vars

\* C19 happens: two records were loaded, one stored as PROCESSING with an
\* error and two attachments; its session is IDLE.
C19_Witness ==
    /\ isStorageInitialized
    /\ Len(notes) = 2
    /\ \E i \in 1..2 :
          /\ db.records[notes[i].id].status = PROCESSING
          /\ db.records[notes[i].id].error # NullError
          /\ notes[i].status = IDLE
          /\ Len(notes[i].attachments) = 2

\* What a round trip may change of a session: PROCESSING becomes IDLE, the
\* error becomes null, the object URLs are others.
Settled(note) ==
    Merge(note,
          [status |-> IF note.status = PROCESSING THEN IDLE ELSE note.status,
           error |-> NullError,
           attachments |-> [i \in 1..Len(note.attachments) |->
                               [file |-> note.attachments[i].file,
                                type |-> note.attachments[i].type]]])

SettledAll(ns) == [i \in 1..Len(ns) |-> Settled(ns[i])]

\* C20: when the records are those a successful save of the collection
\* leaves, loadNotesFromStorage returns the same sessions in the same order,
\* equal but for PROCESSING, the error and the object URLs.
C20_SaveLoadRoundTrip ==
    (isStorageInitialized /\ Consistent)
        => \A o \in LoadOrders(db) :
              SettledAll(loadNotesFromStorage(db, o, nextUrl)) = SettledAll(notes)

\* C21: after a save that succeeded the object store holds one record per
\* session of the saved collection, under the session's id, and no other
\* record; a session deleted in memory has no record after the save of
\* deleteNote.
C21_SaveReplacesAllRecords ==
    [][SaveIssued =>
          /\ DOMAIN db'.records = Ids(notes')
          /\ \A id \in Ids(notes') : db'.records[id] = NoteToSave(Find(notes', id))
          /\ deleteNote => deleteTargetId \notin DOMAIN db'.records]_vars

\* C21 happens: session 1, which had a record, was deleted while another
\* session remained, and the records are those of the remaining sessions.
C21_Witness ==
    /\ settled.kind = "delete"
    /\ settled.id = 1
    /\ settled.present
    /\ settled.count >= 2
    /\ ~HasNote(notes, 1)
    /\ 1 \notin DOMAIN db.records
    /\ DOMAIN db.records = Ids(notes)

\* C22: duplicateNote with the id of a session puts one new session at the
\* front, with an id no session has, status IDLE, no error and an empty chat
\* history, and leaves the active id and the sessions there were as they were;
\* with another id it changes nothing.
C22_DuplicateInsertsOneAtFront ==
    [][\A id \in AnyIds :
          duplicateNote(id) =>
             IF HasNote(notes, id)
             THEN /\ Len(notes') = Len(notes) + 1
                  /\ Tail(notes') = notes
                  /\ notes'[1].id \notin Ids(notes)
                  /\ notes'[1].status = IDLE
                  /\ notes'[1].error = NullError
                  /\ notes'[1].chatHistory = <<>>
                  /\ activeNoteId' = activeNoteId
             ELSE notes' = notes /\ activeNoteId' = activeNoteId /\ db' = db]_vars

\* C22 happens: the copy of a generated session is at the front, IDLE, and
\* another session is active.
C22_Witness ==
    /\ Len(notes) >= 2
    /\ notes[1].title # <<>>
    /\ notes[1].title[Len(notes[1].title)] \in {"(Copy)", "Untitled Copy"}
    /\ notes[1].status = IDLE
    /\ activeNoteId # notes[1].id
    /\ \E i \in 2..Len(notes) :
          /\ notes[i].status = SUCCESS
          /\ notes[1].result = notes[i].result
          /\ notes[1].title = (IF notes[i].title # EmptyTitle
                               THEN Append(notes[i].title, "(Copy)")
                               ELSE <<"Untitled Copy">>)

\* C23: the session duplicateNote makes has the title, the content, the
\* result, the mode and the attachments (files and kinds, in order) of the
\* source.
C23_DuplicateKeepsFields ==
    [][\A id \in AnyIds :
          (HasNote(notes, id) /\ duplicateNote(id)) =>
             LET source == Find(notes, id)
                 copy == notes'[1]
             IN /\ copy.title = source.title
                /\ copy.inputText = source.inputText
                /\ copy.result = source.result
                /\ copy.role = source.role
                /\ Len(copy.attachments) = Len(source.attachments)
                /\ \A i \in 1..Len(source.attachments) :
                      /\ copy.attachments[i].file = source.attachments[i].file
                      /\ copy.attachments[i].type = source.attachments[i].type]_vars

\* C24: setActiveNoteId with an id no session has changes neither the active
\* id nor the collection.
C24_SelectUnknownIdIsNoOp ==
    [][\A id \in AnyIds :
          (~HasNote(notes, id) /\ setActiveNoteId(id))
             => (activeNoteId' = activeNoteId /\ notes' = notes)]_vars

\* The sessions of the collection that the step changed.
Changed == {i \in 1..Len(notes) : notes'[i] # notes[i]}

\* C25: a generation that fails changes at most one session, and of it only
\* the status, which becomes ERROR, and the error, which becomes the message
\* of the failure; content, title, result, attachments and chat history of
\* every session are as before.
C25_FailureChangesStatusAndErrorOnly ==
    [][settled'.outcome = "failure" =>
          /\ Len(notes') = Len(notes)
          /\ activeNoteId' = activeNoteId
          /\ Cardinality(Changed) <= 1
          /\ \A i \in 1..Len(notes) :
                notes'[i] = Merge(notes[i], [status |-> notes'[i].status,
                                             error |-> notes'[i].error])
          /\ \A i \in Changed : notes'[i].status = ERROR
          /\ \A c \in calls, message \in FailureMessages :
                /\ generateNoteContentCatch(c, message)
                      => \A i \in Changed : notes'[i].error = errorMessage(message)
                /\ generateWeeklySummaryCatch(c, message)
                      => \A i \in Changed : notes'[i].error = message]_vars

\* C25 happens: a call for a session with an attachment failed, and the
\* session has status ERROR, the message, its content and its attachment.
C25_Witness ==
    /\ settled.outcome = "failure"
    /\ settled.kind = "note"
    /\ HasNote(notes, settled.id)
    /\ StatusOf(settled.id) = ERROR
    /\ Find(notes, settled.id).error = "quota"
    /\ Find(notes, settled.id).inputText = <<TemplateHtml>>
    /\ Len(Find(notes, settled.id).attachments) = 1

\* C26: a success leaves a title that is not empty when the call answers as
\* it is; the default title is given only to a session whose title is empty.
C26_SuccessKeepsTitle ==
    [][\A c \in calls, markdown \in Markdowns :
          (Succeeds(c, markdown) /\ HasNote(notes, c.activeNoteId))
             => LET before == Find(notes, c.activeNoteId).title
                    after == Find(notes', c.activeNoteId).title
                IN IF before # EmptyTitle THEN after = before ELSE after = SmartTitle]_vars

\* The content holds a tag of a search highlight.
HasHighlight(html) ==
    \E i \in 1..Len(html) : html[i] \in {HighlightOpen, HighlightClose}

\* C27: removing the highlights of a highlighted content gives the content
\* without highlights, for every content of the collection and every query,
\* and no content of the collection holds a highlight span.
C27_RemoveUndoesApply ==
    \A i \in 1..Len(notes) :
       /\ ~HasHighlight(notes[i].inputText)
       /\ \A query \in Queries :
             removeHighlights(applyHighlights(notes[i].inputText, query))
                = removeHighlights(notes[i].inputText)

\* C28: removing the highlights of what the editor shows a second time
\* changes nothing.
C28_RemoveIsIdempotent ==
    \A i \in 1..Len(notes) :
       LET x == Rendered(notes[i].inputText, searchQuery)
       IN removeHighlights(removeHighlights(x)) = removeHighlights(x)

\* The sessions the sidebar lists.
Listed == filteredNotes(notes, searchQuery)

\* The keyword, lower-cased, is part of the lower-cased title, content or
\* generated text of the session.
Found(keyword, note) ==
    \E field \in {LowerCased(note.title), LowerCased(note.inputText), generated(note)} :
       includes(field, LowerCased(keyword))

\* C29: a session is listed exactly when every keyword of the query is found
\* in its title, its content or its generated text; an empty query lists
\* every session; the listed sessions are in the order of the collection.
C29_ListingShowsMatches ==
    /\ \A i \in 1..Len(notes) :
          (\E j \in 1..Len(Listed) : Listed[j] = notes[i])
             <=> (\A k \in 1..Len(searchQuery) : Found(searchQuery[k], notes[i]))
    /\ searchQuery = EmptyQuery => Listed = notes
    /\ \A j, k \in 1..Len(Listed) :
          j < k => FindIndex(notes, Listed[j].id) < FindIndex(notes, Listed[k].id)

\* C29 happens: of two sessions one is listed, for a query of two keywords,
\* one found in its title only and one in its generated text only; the other
\* session holds one of the keywords.
C29_Witness ==
    /\ Len(notes) = 2
    /\ Len(searchQuery) = 2
    /\ Len(Listed) = 1
    /\ includes(LowerCased(Listed[1].title), LowerCased(searchQuery[1]))
    /\ ~includes(generated(Listed[1]), LowerCased(searchQuery[1]))
    /\ includes(generated(Listed[1]), LowerCased(searchQuery[2]))
    /\ ~includes(LowerCased(Listed[1].title), LowerCased(searchQuery[2]))
    /\ \E i \in 1..2 : notes[i] # Listed[1] /\ Found(searchQuery[1], notes[i])

\* C30: when no session is in the weekly window, generateWeeklySummary starts
\* no call, inserts no session, leaves the collection, the active id and the
\* status and error of every session as they were, and records no error.
C30_EmptyWeekChangesNothing ==
    [][(Len(weeklyNotes(notes, now)) = 0
           /\ (generateWeeklySummaryNone \/ generateWeeklySummary))
        => /\ calls' = calls /\ ncalls' = ncalls
           /\ Len(notes') = Len(notes) /\ nextId' = nextId
           /\ notes' = notes
           /\ activeNoteId' = activeNoteId
           /\ \A i \in 1..Len(notes) :
                 /\ notes'[i].status = notes[i].status
                 /\ notes'[i].error = notes[i].error
           /\ db' = db /\ saveStatus' = saveStatus]_vars

\* C30 happens: generateWeeklySummary returned early on a collection that
\* holds a generated session, none of this week.
C30_Witness ==
    /\ settled.kind = "weekly" /\ settled.outcome = "none"
    /\ settled.count = Len(notes)
    /\ Len(weeklyNotes(notes, now)) = 0
    /\ \E i \in 1..Len(notes) : notes[i].status = SUCCESS /\ notes[i].error = NullError

\* The session qualifies for the weekly summary asked for now.
Qualifies(note) == \E i \in 1..Len(weeklyNotes(notes, now)) : weeklyNotes(notes, now)[i] = note

StartedWeekly == {c \in calls' \ calls : c.kind = "weekly"}

\* Markup a generation wrote into a content.
IsGenerated(token) ==
    \/ token = SeparatorHtml
    \/ \E markdown \in Markdowns : token = StyledAiHtml(markdownToHtml(markdown))

\* The sessions created in the window that no weekly summary made: a summary
\* and its duplicates have the mode "weekly".
OwnNotes == SelectSeq(notes, LAMBDA n : /\ n.createdAt >= Monday(now)
                                        /\ n.createdAt <= Friday(now)
                                        /\ n.role # "weekly")

\* C32: the document sent for a weekly summary holds, for each session of the
\* window that is no summary, its content up to the first separator, nothing
\* of a summary or of a duplicate of one, and nothing a generation wrote.
C32_AggregateHoldsOwnContentOnly ==
    [][\A c \in StartedWeekly :
          /\ c.content = aggregatedContent(OwnNotes)
          /\ \A k \in 1..Len(c.content) : ~IsGenerated(c.content[k])]_vars

\* The first slot of 17:00 on the day.
FivePm(day) == day * SlotsPerDay + MinuteStart

\* C33: checkTime calls generateWeeklySummary at most once on a calendar day,
\* however often it runs in the minute 17:00 of a Friday; and when the
\* application was open from the start of that minute to its end, it has
\* called it on that day.
C33_OncePerFriday ==
    /\ \A i, j \in 1..Len(autoRuns) : i # j => autoRuns[i] # autoRuns[j]
    /\ \A day \in 0..DayOf(now) :
          (/\ day % 7 = 5
           /\ mountedAt <= FivePm(day)
           /\ wall >= FivePm(day) + MinuteSlots)
             => \E i \in 1..Len(autoRuns) : autoRuns[i] = day

\* C33 happens: the application was open before 17:00 of a Friday, checkTime
\* ran twice in that minute, and the summary was asked for once.
C33_Witness ==
    /\ getDay(now) = 5
    /\ mountedAt < FivePm(DayOf(now))
    /\ checkedAt >= FivePm(DayOf(now)) + CheckSlots
    /\ wall >= FivePm(DayOf(now)) + MinuteSlots
    /\ autoRuns = <<DayOf(now)>>
    /\ lastRunDate = DayOf(now)

\* The texts of the parts, in order, without their white space.
RECURSIVE TextOf(_, _)
TextOf(parts, i) ==
    IF i > Len(parts) THEN <<>>
    ELSE SelectSeq(parts[i].text, LAMBDA piece : ~IsWhiteSpace(piece)) \o TextOf(parts, i + 1)

\* The text a node of the content gives the request: its text when it is a
\* text node that is not white space, its address when it is a link.
SentText(node) ==
    CASE node.tag = "#text" /\ node.value # "" /\ ~IsWhiteSpace(node.value) -> <<node.value>>
      [] node.tag = "A" /\ node.value = "https://host" -> <<" (Link URL: https://host) ">>
      [] OTHER -> <<>>

RECURSIVE SentTexts(_, _)
SentTexts(nodes, i) ==
    IF i > Len(nodes) THEN <<>> ELSE SentText(nodes[i]) \o SentTexts(nodes, i + 1)

IsText(part) == part.mimeType = ""

\* The number of inline-data segments among the first k, and the position of
\* the j-th image among the nodes.
InlineUpTo(parts, k) == Cardinality({q \in 1..k : ~IsText(parts[q])})
ImageAt(nodes, j) ==
    CHOOSE p \in 1..Len(nodes) :
       nodes[p].tag = "IMG" /\ Cardinality({q \in 1..p : nodes[q].tag = "IMG"}) = j

\* C34: the request of a call is never empty; it is the segments of the
\* content in document order, then one inline-data segment per attachment in
\* their order; it is the one fallback text exactly when the content gives no
\* segment and nothing is attached; no text segment is white space only.
C34_RequestIsContentThenFiles ==
    \A c \in calls :
       c.kind = "note" =>
          LET files == c.activeNote.attachments
              nodes == WalkFrom(c.content, 1)
              images == SelectSeq(nodes, LAMBDA node : node.tag = "IMG")
              own == Len(c.parts) - Len(files)
              empty == SentTexts(nodes, 1) = <<>> /\ images = <<>> /\ files = <<>>
          IN /\ c.parts # <<>>
             /\ \A k \in 1..Len(c.parts) : IsText(c.parts[k]) => ~TrimsToEmpty(c.parts[k].text)
             /\ empty <=> c.parts = <<FallbackPart>>
             /\ ~empty =>
                   /\ own >= 0
                   /\ \A i \in 1..Len(files) :
                         c.parts[own + i] = InlineData(files[i].file.mime, files[i].file.ext)
                   /\ Len(SelectSeq(SubSeq(c.parts, 1, own), LAMBDA p : ~IsText(p))) = Len(images)
                   /\ TextOf(SubSeq(c.parts, 1, own), 1) = SentTexts(nodes, 1)
                   /\ \A k \in 1..(own - 1) : ~(IsText(c.parts[k]) /\ IsText(c.parts[k + 1]))
                   /\ \A k \in 1..own :
                         ~IsText(c.parts[k]) =>
                            /\ c.parts[k] = InlineData("image/png", "AAAA")
                            /\ TextOf(SubSeq(c.parts, 1, k - 1), 1)
                                  = SentTexts(SubSeq(nodes, 1, ImageAt(nodes, InlineUpTo(c.parts, k)) - 1), 1)

\* C34 happens: a call for a content of text, an image and text, with two
\* files attached, has a request of five segments.
C34_Witness ==
    \E c \in calls :
       /\ c.kind = "note"
       /\ c.content = <<TypedHtml, ImageHtml, TypedHtml>>
       /\ Len(c.activeNote.attachments) = 2
       /\ Len(c.parts) = 5
       /\ IsText(c.parts[1]) /\ ~IsText(c.parts[2]) /\ IsText(c.parts[3])

\* The step is the completion of init.
InitCompletes == ~isStorageInitialized /\ isStorageInitialized'

\* The collection is one default session, which is active and was passed to
\* saveNotesToStorage.
StartsAfresh ==
    /\ Len(notes') = 1
    /\ notes'[1].title = EmptyTitle
    /\ notes'[1].status = IDLE
    /\ notes'[1].error = NullError
    /\ notes'[1].attachments = <<>>
    /\ notes'[1].result = <<>>
    /\ notes'[1].id \notin DOMAIN db.records
    /\ activeNoteId' = notes'[1].id
    /\ \E ok \in SaveOutcomes(db) : db' = saveNotesToStorage(db, notes', ok)

\* The collection is the stored sessions, newest first, and the first is active.
StartsLoaded ==
    /\ db.opened
    /\ Len(notes') > 0
    /\ Ids(notes') = DOMAIN db.records
    /\ Len(notes') = Cardinality(DOMAIN db.records)
    /\ \A i \in 1..Len(notes') :
          /\ notes'[i].title = db.records[notes'[i].id].title
          /\ notes'[i].inputText = db.records[notes'[i].id].inputText
          /\ notes'[i].createdAt = db.records[notes'[i].id].createdAt
          /\ notes'[1].createdAt >= notes'[i].createdAt
    /\ activeNoteId' = notes'[1].id
    /\ db' = db

\* C35: when init completes the collection is either one default session
\* (empty title, Idle, no error, no attachment, no result), active and passed
\* to saveNotesToStorage, or the loaded sessions with the newest, the first,
\* active; it is the default session when the database holds no record.
C35_InitLoadsOrStartsAfresh ==
    [][InitCompletes =>
          /\ StartsAfresh \/ StartsLoaded
          /\ (~db.opened \/ DOMAIN db.records = {}) => StartsAfresh]_vars

\* C35 happens: the load over two stored sessions failed; the collection is
\* one default session and the database holds this session only.
C35_Witness ==
    /\ isStorageInitialized
    /\ Len(notes) = 1
    /\ activeNoteId = 3 /\ notes[1].id = 3
    /\ notes[1].status = IDLE /\ notes[1].title = EmptyTitle
    /\ DOMAIN db.records = {3}
    /\ timer = DelayTicks

\* C36: the status of a session of the collection changes only from a status
\* other than PROCESSING to PROCESSING, or from PROCESSING to SUCCESS or
\* ERROR, the latter only in the step in which the session's own call answers.
C36_StatusFollowsEdges ==
    [][\A i \in 1..Len(notes), j \in 1..Len(notes') :
          notes'[j].id = notes[i].id =>
             \/ notes'[j].status = notes[i].status
             \/ notes[i].status # PROCESSING /\ notes'[j].status = PROCESSING
             \/ /\ notes[i].status = PROCESSING
                /\ notes'[j].status \in {SUCCESS, ERROR}
                /\ \E c \in calls \ calls' : c.activeNoteId = notes[i].id]_vars

\* C37: the success of a call leaves the attachments, the conversation
\* history and the mode of its session as they are when the call answers.
C37_SuccessKeepsAttachments ==
    [][\A c \in calls, markdown \in Markdowns :
          (Succeeds(c, markdown) /\ HasNote(notes, c.activeNoteId))
             => /\ Find(notes', c.activeNoteId).attachments = Find(notes, c.activeNoteId).attachments
                /\ Find(notes', c.activeNoteId).chatHistory = Find(notes, c.activeNoteId).chatHistory
                /\ Find(notes', c.activeNoteId).role = Find(notes, c.activeNoteId).role]_vars

\* The step handles the reply or the error of the chat call c.
ChatAnswers(c) ==
    /\ c.kind = "chat"
    /\ c \notin calls'
    /\ settled'.kind = "chat"
    /\ settled'.id = c.activeNoteId

\* C38: the reply, or the error message, of a chat call is appended to the
\* history of the session the message was sent from and the history of every
\* other session stays as it is, whichever session is active; after the
\* answer, and after a message sent without an active session, isChatLoading
\* is false.
C38_ChatReplyGoesToItsSession ==
    [][/\ \A c \in calls :
             ChatAnswers(c) =>
                /\ isChatLoading' = FALSE
                /\ \A i \in 1..Len(notes) :
                      IF notes[i].id = c.activeNoteId
                      THEN /\ Len(notes'[i].chatHistory) = Len(notes[i].chatHistory) + 1
                           /\ notes'[i].chatHistory[Len(notes'[i].chatHistory)].role = "model"
                      ELSE notes'[i].chatHistory = notes[i].chatHistory
       /\ \A text \in ChatTexts :
             (~HasNote(notes, activeNoteId) /\ sendChatMessage(text)) => isChatLoading' = FALSE]_vars

\* C39: a save is issued only when init has loaded, the save of init included,
\* and the collection it writes is not empty; the records of the object store
\* are never replaced by none.
C39_NoSaveBeforeLoad ==
    [][/\ SaveIssued => isStorageInitialized /\ Len(notes') > 0
       /\ db' # db =>
             /\ isStorageInitialized'
             /\ Len(notes') > 0
             /\ DOMAIN db'.records # {}
             /\ db' = saveNotesToStorage(db, notes', TRUE)]_vars

\* C39 happens: after the load of a stored session the user pressed save on a
\* collection of two sessions, which are the records of the object store.
C39_Witness ==
    /\ settled.kind = "save"
    /\ isStorageInitialized
    /\ Len(notes) = 2
    /\ Ids(notes) = DOMAIN db.records
    /\ \E i \in 1..2 : notes[i].id = 1 /\ notes[i].title = <<"T">>

----------------------------------------------------------------------------
\* src/App.tsx: the App that keeps the collection in useState. A handler is
\* a closure of the render it was created in: its notes, activeNoteId and
\* activeNote are those of that render, setNotes(prev => ...) works on the
\* state when it is applied, and notesRef.current (lines 112-114) is the
\* collection of the last render.

\* handleGenerate (lines 396-405): the guard, the transition to PROCESSING and
\* the call; the closure keeps notes, activeNoteId and activeNote of the
\* render of the click.
handleGenerate ==
    /\ isStorageInitialized
    /\ HasNote(notes, activeNoteId)
    /\ ActiveNote.status # PROCESSING
    /\ notes' = updateActiveNote(notes, activeNoteId,
                    [status |-> PROCESSING, error |-> NullError])
    /\ calls' = calls \cup {[n |-> ncalls + 1, kind |-> "generate",
                             activeNoteId |-> activeNoteId, activeNote |-> ActiveNote,
                             notes |-> notes]}
    /\ ncalls' = ncalls + 1
    /\ UNCHANGED <<activeNoteId, deleteTargetId, isStorageInitialized, saveStatus,
                   db, nextId, nextUrl, revoked, now>>
    /\ settled' = NoCall
    /\ UNCHANGED searchQuery
    /\ UNCHANGED scheduler
    /\ UNCHANGED isChatLoading
    /\ Restarted

\* Line 423: the collection handleGenerate passes to saveNotesToStorage, the
\* notes of its closure with the session replaced.
savedOnGenerate(c, markdown, t) ==
    ReplaceById(c.notes, c.activeNoteId, updatedNote(c.activeNote, markdown, t))

\* Lines 406-423: the call answers markdown.
handleGenerateSuccess(c, markdown) ==
    /\ c \in calls /\ c.kind = "generate"
    /\ notes' = ReplaceById(notes, c.activeNoteId, updatedNote(c.activeNote, markdown, now))
    /\ \E ok \in SaveOutcomes(db) :
          db' = saveNotesToStorage(db, savedOnGenerate(c, markdown, now), ok)
    /\ calls' = calls \ {c}
    /\ UNCHANGED <<activeNoteId, deleteTargetId, isStorageInitialized, saveStatus,
                   ncalls, nextId, nextUrl, revoked, now>>
    /\ Answered(c, "success")
    /\ UNCHANGED searchQuery
    /\ UNCHANGED scheduler
    /\ UNCHANGED isChatLoading
    /\ Restarted

\* Lines 425-431: the call throws; updateActiveNote of the closure maps the
\* activeNoteId of the click.
handleGenerateCatch(c, message) ==
    /\ c \in calls /\ c.kind = "generate"
    /\ notes' = MergeById(notes, c.activeNoteId,
                          [status |-> ERROR, error |-> errorMessage(message)])
    /\ calls' = calls \ {c}
    /\ UNCHANGED <<activeNoteId, deleteTargetId, isStorageInitialized, saveStatus,
                   db, ncalls, nextId, nextUrl, revoked, now>>
    /\ Answered(c, "failure")
    /\ UNCHANGED searchQuery
    /\ UNCHANGED scheduler
    /\ UNCHANGED isChatLoading
    /\ Restarted

\* handleWeeklySummary (lines 216-273): without a session of the week the
\* handler returns after the alert; else the placeholder session is inserted,
\* made active and the call started.
handleWeeklySummary ==
    /\ isStorageInitialized
    /\ UNCHANGED <<deleteTargetId, isStorageInitialized, saveStatus,
                   db, nextUrl, revoked, now>>
    /\ IF Len(weeklyNotes(notes, now)) = 0
       THEN /\ UNCHANGED <<notes, activeNoteId, calls, nextId, ncalls, timer>>
            /\ About("summary", NullId, "none")
       ELSE /\ LET summary == summaryNote(nextId, now)
               IN /\ notes' = <<summary>> \o notes
                  /\ activeNoteId' = summary.id
                  /\ calls' = calls \cup {[n |-> ncalls + 1, kind |-> "summary",
                                           activeNoteId |-> summary.id,
                                           activeNote |-> summary,
                                           content |-> aggregatedContent(weeklyNotes(notes, now))]}
            /\ nextId' = nextId + 1
            /\ ncalls' = ncalls + 1
            /\ settled' = NoCall
            /\ Restarted
    /\ searchQuery' = EmptyQuery
    /\ UNCHANGED scheduler
    /\ UNCHANGED isChatLoading

\* Line 290: the collection handleWeeklySummary passes to saveNotesToStorage,
\* the completed session before the collection of the last render.
savedOnSummary(c, markdown, t) ==
    <<updatedSummaryNote(c.activeNote, markdown, t)>> \o notes

\* Lines 274-290: the call answers markdown.
handleWeeklySummarySuccess(c, markdown) ==
    /\ c \in calls /\ c.kind = "summary"
    /\ notes' = ReplaceById(notes, c.activeNoteId,
                            updatedSummaryNote(c.activeNote, markdown, now))
    /\ \E ok \in SaveOutcomes(db) :
          db' = saveNotesToStorage(db, savedOnSummary(c, markdown, now), ok)
    /\ calls' = calls \ {c}
    /\ UNCHANGED <<activeNoteId, deleteTargetId, isStorageInitialized, saveStatus,
                   ncalls, nextId, nextUrl, revoked, now>>
    /\ Answered(c, "success")
    /\ UNCHANGED searchQuery
    /\ UNCHANGED scheduler
    /\ UNCHANGED isChatLoading
    /\ Restarted

\* Lines 292-295: the call throws.
handleWeeklySummaryCatch(c, message) ==
    /\ c \in calls /\ c.kind = "summary"
    /\ notes' = MergeById(notes, c.activeNoteId, [status |-> ERROR, error |-> message])
    /\ calls' = calls \ {c}
    /\ UNCHANGED <<activeNoteId, deleteTargetId, isStorageInitialized, saveStatus,
                   db, ncalls, nextId, nextUrl, revoked, now>>
    /\ Answered(c, "failure")
    /\ UNCHANGED searchQuery
    /\ UNCHANGED scheduler
    /\ UNCHANGED isChatLoading
    /\ Restarted

\* The App of a user who creates, selects and deletes sessions while a
\* generation or a weekly summary is in flight. handleAddNote (lines 203-213)
\* and confirmDeleteNote (lines 350-376) set and save what addNote and
\* deleteNote of the store set and save.
NextHooks ==
    \/ init
    \/ ModalClosed /\ \E id \in Ids(notes) : setActiveNoteId(id)
    \/ \E id \in Ids(notes) \cup {NullId} : setDeleteTargetId(id)
    \/ ModalClosed /\ CanCreate /\ addNote
    \/ (Len(FilterOut(notes, deleteTargetId)) > 0 \/ CanCreate) /\ deleteNote
    \/ ModalClosed /\ CanCall(MaxCalls) /\ handleGenerate
    \/ ModalClosed /\ CanCreate /\ CanCall(MaxCalls) /\ handleWeeklySummary
    \/ \E c \in calls, markdown \in Markdowns : handleGenerateSuccess(c, markdown)
    \/ \E c \in calls, message \in FailureMessages : handleGenerateCatch(c, message)
    \/ \E c \in calls, markdown \in Markdowns : handleWeeklySummarySuccess(c, markdown)
    \/ \E c \in calls, message \in FailureMessages : handleWeeklySummaryCatch(c, message)

SpecHooks == InitWeekly /\ [][NextHooks]_vars

\* The ids of the collection are distinct.
DistinctIds(ns) == \A i, j \in 1..Len(ns) : ns[i].id = ns[j].id => i = j

\* C40: the collection a completed generation or weekly summary passes to
\* saveNotesToStorage is the collection in memory after the completion, with
\* each id once; a save that changes the object store leaves the records of
\* the collection in memory, the sessions created during the call included,
\* those deleted excluded, and the completed version of the session of the
\* call.
C40_SavedCollectionIsMemory ==
    [][/\ \A c \in calls, markdown \in Markdowns :
             /\ handleGenerateSuccess(c, markdown) =>
                   /\ savedOnGenerate(c, markdown, now) = notes'
                   /\ DistinctIds(savedOnGenerate(c, markdown, now))
             /\ handleWeeklySummarySuccess(c, markdown) =>
                   /\ savedOnSummary(c, markdown, now) = notes'
                   /\ DistinctIds(savedOnSummary(c, markdown, now))
       /\ db' # db =>
             /\ DistinctIds(notes')
             /\ DOMAIN db'.records = Ids(notes')
             /\ \A id \in Ids(notes') : db'.records[id] = NoteToSave(Find(notes', id))]_vars

====
